---------------------------- MODULE Spec2Model ----------------------------
(***************************************************************************)
(* Persona-driven document intelligence (v3.0, modular layout under        *)
(* src/src): language detection, relevance scoring, section extraction,    *)
(* subsection refinement, ranking/filtering and the orchestrating          *)
(* process_documents_multilingual run.                                     *)
(*                                                                         *)
(* Representation choices                                                  *)
(*  - A Python str is a sequence of one-character strings, so len, strip,  *)
(*    lower, slicing, join and the substring test `k in s` are computed    *)
(*    on characters exactly as the code computes them.                     *)
(*  - A Python float score is a fixed-point integer counting 1/ScoreScale  *)
(*    points (15.0 is 15 * ScoreScale).                                    *)
(*  - External libraries (langdetect, langid, the sentence transformer,    *)
(*    nltk punkt, PyMuPDF, the wall clock) are environment inputs: their   *)
(*    results are drawn from small sets.                                   *)
(***************************************************************************)
EXTENDS Integers, Sequences, FiniteSets, TLC

---------------------------------------------------------------------------
(* Bounds of the model (not program constants).                            *)

\* Largest number of directory entries of the file library listed at once.
MaxFiles == 3
\* Last value the wall clock can reach, in seconds since start_time.
MaxTime == 600
\* Number of list elements the ranking inputs add to a preset list.
MaxExtra == 2

---------------------------------------------------------------------------
(* Python str primitives on character sequences.                           *)

Whitespace == {" ", "\t", "\n"}

IsSpace(c) == c \in Whitespace

UpperChars == <<"A","B","C","D","E","F","G","H","I","J","K","L","M",
                "N","O","P","Q","R","S","T","U","V","W","X","Y","Z",
                "U+00C1","U+00C9","U+00CD","U+00D3","U+00DA","U+00D1","U+00DC">>

LowerChars == <<"a","b","c","d","e","f","g","h","i","j","k","l","m",
                "n","o","p","q","r","s","t","u","v","w","x","y","z",
                "U+00E1","U+00E9","U+00ED","U+00F3","U+00FA","U+00F1","U+00FC">>

UpperSet == {UpperChars[i] : i \in DOMAIN UpperChars}

ToLower == [c \in UpperSet |->
              LowerChars[CHOOSE i \in DOMAIN UpperChars : UpperChars[i] = c]]

\* str.lower()
lower(text) ==
  [i \in 1..Len(text) |-> IF text[i] \in UpperSet THEN ToLower[text[i]] ELSE text[i]]

\* str.strip()
strip(text) ==
  IF \A i \in 1..Len(text) : IsSpace(text[i]) THEN <<>>
  ELSE LET first == CHOOSE i \in 1..Len(text) :
                      ~IsSpace(text[i]) /\ \A j \in 1..(i-1) : IsSpace(text[j])
           last  == CHOOSE i \in 1..Len(text) :
                      ~IsSpace(text[i]) /\ \A j \in (i+1)..Len(text) : IsSpace(text[j])
       IN SubSeq(text, first, last)

\* `key in text` for two str values
Contains(key, text) ==
  \/ Len(key) = 0
  \/ \E i \in 1..(Len(text) - Len(key) + 1) :
       \A j \in 1..Len(key) : text[i + j - 1] = key[j]

\* text[:n]
Take(text, n) == SubSeq(text, 1, IF Len(text) < n THEN Len(text) ELSE n)

\* ' '.join(parts)
RECURSIVE Join(_)
Join(parts) ==
  IF Len(parts) = 0 THEN <<>>
  ELSE IF Len(parts) = 1 THEN parts[1]
  ELSE parts[1] \o <<" ">> \o Join(Tail(parts))

\* A dict literal {k1: v1, ...} given as a sequence of <<key, value>> pairs.
Dict(pairs) ==
  [k \in {pairs[i][1] : i \in DOMAIN pairs} |->
     pairs[CHOOSE i \in DOMAIN pairs :
             pairs[i][1] = k /\ \A j \in DOMAIN pairs : pairs[j][1] = k => j <= i][2]]

EmptyDict == <<>>

\* None, where a str is expected: a sequence that is no str, its one element
\* being no character
None == <<"None">>

\* sum(d[k] for k in keys)
RECURSIVE SumOver(_, _)
SumOver(d, keys) ==
  IF keys = {} THEN 0
  ELSE LET k == CHOOSE x \in keys : TRUE
       IN d[k] + SumOver(d, keys \ {k})

\* dict.update: entries of b replace entries of a on the same key
Update(a, b) ==
  [k \in (DOMAIN a) \cup (DOMAIN b) |-> IF k \in DOMAIN b THEN b[k] ELSE a[k]]

Min(a, b) == IF a < b THEN a ELSE b

Max(a, b) == IF a > b THEN a ELSE b

---------------------------------------------------------------------------
(* nltk.tokenize.sent_tokenize: a sentence ends at '.', '!' or '?'         *)
(* followed by whitespace; pieces are stripped and empty pieces dropped.   *)

SentenceEnd == {".", "!", "?"}

\* positions i such that a sentence ends at text[i]
Breaks(text) ==
  {i \in 1..Len(text) :
     \/ i = Len(text)
     \/ text[i] \in SentenceEnd /\ IsSpace(text[i + 1])}

RECURSIVE SplitAt(_, _, _)
SplitAt(text, from, breaks) ==
  IF from > Len(text) THEN <<>>
  ELSE LET to    == CHOOSE i \in breaks : i >= from /\ \A j \in breaks : j >= from => i <= j
           piece == strip(SubSeq(text, from, to))
           rest  == SplitAt(text, to + 1, breaks)
       IN IF piece = <<>> THEN rest ELSE <<piece>> \o rest

sent_tokenize(text) == SplitAt(text, 1, Breaks(text))

---------------------------------------------------------------------------
(* src/src/config.py                                                       *)

\* A character outside ASCII is written by its code point, "U+00E1" for a-acute.
\* PERSONA_KNOWLEDGE[persona]["keywords"][language]: keyword -> weight.
PERSONA_KNOWLEDGE ==
  [researcher |-> [keywords |-> [en |-> Dict(<<
    <<<<"m","e","t","h","o","d","o","l","o","g","y">>, 10>>,
    <<<<"h","y","p","o","t","h","e","s","i","s">>, 9>>,
    <<<<"e","x","p","e","r","i","m","e","n","t">>, 9>>,
    <<<<"a","n","a","l","y","s","i","s">>, 8>>,
    <<<<"f","i","n","d","i","n","g","s">>, 8>>,
    <<<<"c","o","n","c","l","u","s","i","o","n">>, 8>>,
    <<<<"l","i","t","e","r","a","t","u","r","e"," ","r","e","v","i","e","w">>, 10>>,
    <<<<"d","a","t","a">>, 7>>,
    <<<<"s","t","a","t","i","s","t","i","c","s">>, 8>>,
    <<<<"r","e","s","u","l","t","s">>, 8>>,
    <<<<"d","i","s","c","u","s","s","i","o","n">>, 8>>,
    <<<<"r","e","s","e","a","r","c","h"," ","q","u","e","s","t","i","o","n">>, 9>>,
    <<<<"s","a","m","p","l","i","n","g">>, 7>>,
    <<<<"v","a","r","i","a","b","l","e","s">>, 7>>,
    <<<<"c","o","r","r","e","l","a","t","i","o","n">>, 8>>,
    <<<<"s","i","g","n","i","f","i","c","a","n","c","e">>, 8>>,
    <<<<"p","e","e","r"," ","r","e","v","i","e","w">>, 9>>,
    <<<<"c","i","t","a","t","i","o","n">>, 7>>,
    <<<<"r","e","f","e","r","e","n","c","e","s">>, 7>>,
    <<<<"a","b","s","t","r","a","c","t">>, 8>>,
    <<<<"b","a","c","k","g","r","o","u","n","d">>, 7>>,
    <<<<"o","b","j","e","c","t","i","v","e","s">>, 8>>,
    <<<<"l","i","m","i","t","a","t","i","o","n","s">>, 7>>,
    <<<<"f","u","t","u","r","e"," ","w","o","r","k">>, 7>> >>),
      es |-> Dict(<<
    <<<<"m","e","t","o","d","o","l","o","g","U+00ED","a">>, 10>>,
    <<<<"h","i","p","U+00F3","t","e","s","i","s">>, 9>>,
    <<<<"e","x","p","e","r","i","m","e","n","t","o">>, 9>>,
    <<<<"a","n","U+00E1","l","i","s","i","s">>, 8>>,
    <<<<"h","a","l","l","a","z","g","o","s">>, 8>>,
    <<<<"c","o","n","c","l","u","s","i","U+00F3","n">>, 8>>,
    <<<<"r","e","v","i","s","i","U+00F3","n"," ","l","i","t","e","r","a","r","i","a">>, 10>>,
    <<<<"d","a","t","o","s">>, 7>>,
    <<<<"e","s","t","a","d","U+00ED","s","t","i","c","a","s">>, 8>>,
    <<<<"r","e","s","u","l","t","a","d","o","s">>, 8>>,
    <<<<"d","i","s","c","u","s","i","U+00F3","n">>, 8>>,
    <<<<"p","r","e","g","u","n","t","a"," ","i","n","v","e","s","t","i","g","a","c","i","U+00F3","n">>, 9>>,
    <<<<"m","u","e","s","t","r","e","o">>, 7>>,
    <<<<"v","a","r","i","a","b","l","e","s">>, 7>>,
    <<<<"c","o","r","r","e","l","a","c","i","U+00F3","n">>, 8>>,
    <<<<"s","i","g","n","i","f","i","c","a","n","c","i","a">>, 8>>,
    <<<<"r","e","v","i","s","i","U+00F3","n"," ","p","a","r","e","s">>, 9>>,
    <<<<"c","i","t","a">>, 7>>,
    <<<<"r","e","f","e","r","e","n","c","i","a","s">>, 7>>,
    <<<<"r","e","s","u","m","e","n">>, 8>>,
    <<<<"a","n","t","e","c","e","d","e","n","t","e","s">>, 7>>,
    <<<<"o","b","j","e","t","i","v","o","s">>, 8>>,
    <<<<"l","i","m","i","t","a","c","i","o","n","e","s">>, 7>>,
    <<<<"t","r","a","b","a","j","o"," ","f","u","t","u","r","o">>, 7>> >>)],
    focus_areas |-> <<"research design", "data analysis", "statistical methods", "findings interpretation">>],
   student |-> [keywords |-> [en |-> Dict(<<
    <<<<"c","o","n","c","e","p","t">>, 9>>,
    <<<<"d","e","f","i","n","i","t","i","o","n">>, 9>>,
    <<<<"e","x","a","m","p","l","e">>, 8>>,
    <<<<"e","x","p","l","a","n","a","t","i","o","n">>, 8>>,
    <<<<"t","h","e","o","r","y">>, 8>>,
    <<<<"p","r","i","n","c","i","p","l","e">>, 8>>,
    <<<<"f","o","r","m","u","l","a">>, 8>>,
    <<<<"s","t","e","p","-","b","y","-","s","t","e","p">>, 9>>,
    <<<<"t","u","t","o","r","i","a","l">>, 9>>,
    <<<<"p","r","a","c","t","i","c","e">>, 8>>,
    <<<<"e","x","e","r","c","i","s","e">>, 8>>,
    <<<<"s","u","m","m","a","r","y">>, 8>>,
    <<<<"k","e","y"," ","p","o","i","n","t","s">>, 9>>,
    <<<<"l","e","a","r","n","i","n","g"," ","o","b","j","e","c","t","i","v","e","s">>, 9>>,
    <<<<"o","v","e","r","v","i","e","w">>, 7>>,
    <<<<"i","n","t","r","o","d","u","c","t","i","o","n">>, 7>>,
    <<<<"b","a","s","i","c","s">>, 8>>,
    <<<<"f","u","n","d","a","m","e","n","t","a","l","s">>, 8>>,
    <<<<"g","u","i","d","e">>, 8>>,
    <<<<"h","o","w"," ","t","o">>, 8>>,
    <<<<"t","i","p","s">>, 7>>,
    <<<<"c","o","m","m","o","n"," ","m","i","s","t","a","k","e","s">>, 8>>,
    <<<<"r","e","v","i","e","w">>, 7>> >>)],
    focus_areas |-> <<"fundamental concepts", "practical examples", "step-by-step explanations">>],
   analyst |-> [keywords |-> [en |-> Dict(<<
    <<<<"t","r","e","n","d">>, 9>>,
    <<<<"p","a","t","t","e","r","n">>, 9>>,
    <<<<"i","n","s","i","g","h","t">>, 9>>,
    <<<<"a","n","a","l","y","s","i","s">>, 8>>,
    <<<<"c","o","m","p","a","r","i","s","o","n">>, 8>>,
    <<<<"b","e","n","c","h","m","a","r","k">>, 8>>,
    <<<<"m","e","t","r","i","c">>, 8>>,
    <<<<"k","p","i">>, 9>>,
    <<<<"p","e","r","f","o","r","m","a","n","c","e">>, 8>>,
    <<<<"e","v","a","l","u","a","t","i","o","n">>, 8>>,
    <<<<"a","s","s","e","s","s","m","e","n","t">>, 8>>,
    <<<<"r","e","c","o","m","m","e","n","d","a","t","i","o","n">>, 9>>,
    <<<<"f","o","r","e","c","a","s","t">>, 9>>,
    <<<<"p","r","o","j","e","c","t","i","o","n">>, 8>>,
    <<<<"m","a","r","k","e","t">>, 8>>,
    <<<<"i","n","d","u","s","t","r","y">>, 7>>,
    <<<<"c","o","m","p","e","t","i","t","i","v","e">>, 8>>,
    <<<<"s","t","r","a","t","e","g","y">>, 8>>,
    <<<<"o","p","t","i","m","i","z","a","t","i","o","n">>, 8>>,
    <<<<"e","f","f","i","c","i","e","n","c","y">>, 7>>,
    <<<<"r","o","i">>, 9>>,
    <<<<"g","r","o","w","t","h">>, 8>>,
    <<<<"o","p","p","o","r","t","u","n","i","t","y">>, 8>>,
    <<<<"r","i","s","k">>, 8>> >>)],
    focus_areas |-> <<"data interpretation", "trend analysis", "business insights">>]]

\* JOB_PATTERNS[job]["keywords"][language]: keyword -> weight.
JOB_PATTERNS ==
  [literature_review |-> [keywords |-> [en |-> Dict(<<
    <<<<"l","i","t","e","r","a","t","u","r","e">>, 10>>,
    <<<<"r","e","v","i","e","w">>, 9>>,
    <<<<"r","e","s","e","a","r","c","h">>, 8>>,
    <<<<"s","t","u","d","y">>, 8>>,
    <<<<"p","a","p","e","r">>, 7>>,
    <<<<"p","u","b","l","i","c","a","t","i","o","n">>, 7>>,
    <<<<"m","e","t","h","o","d","o","l","o","g","y">>, 8>>,
    <<<<"f","i","n","d","i","n","g","s">>, 8>>,
    <<<<"c","o","n","c","l","u","s","i","o","n">>, 8>>,
    <<<<"c","i","t","a","t","i","o","n">>, 7>>,
    <<<<"r","e","f","e","r","e","n","c","e","s">>, 7>>,
    <<<<"b","a","c","k","g","r","o","u","n","d">>, 7>>,
    <<<<"e","x","i","s","t","i","n","g"," ","w","o","r","k">>, 8>>,
    <<<<"p","r","e","v","i","o","u","s"," ","r","e","s","e","a","r","c","h">>, 8>>,
    <<<<"g","a","p">>, 8>>,
    <<<<"c","o","n","t","r","i","b","u","t","i","o","n">>, 7>> >>)],
    focus |-> "comprehensive overview of existing research"],
   exam_preparation |-> [keywords |-> [en |-> Dict(<<
    <<<<"c","o","n","c","e","p","t">>, 9>>,
    <<<<"d","e","f","i","n","i","t","i","o","n">>, 9>>,
    <<<<"f","o","r","m","u","l","a">>, 8>>,
    <<<<"e","x","a","m","p","l","e">>, 8>>,
    <<<<"p","r","a","c","t","i","c","e">>, 8>>,
    <<<<"k","e","y"," ","p","o","i","n","t","s">>, 9>>,
    <<<<"s","u","m","m","a","r","y">>, 8>>,
    <<<<"r","e","v","i","e","w">>, 8>>,
    <<<<"i","m","p","o","r","t","a","n","t">>, 8>>,
    <<<<"e","s","s","e","n","t","i","a","l">>, 8>>,
    <<<<"c","o","r","e">>, 8>>,
    <<<<"f","u","n","d","a","m","e","n","t","a","l">>, 8>>,
    <<<<"t","e","s","t">>, 7>>,
    <<<<"e","x","a","m">>, 7>>,
    <<<<"q","u","e","s","t","i","o","n">>, 7>>,
    <<<<"a","n","s","w","e","r">>, 7>> >>)],
    focus |-> "essential concepts and examples for testing"]]

SECTION_KEYWORDS ==
  [en |-> <<
    <<"i","n","t","r","o","d","u","c","t","i","o","n">>,
    <<"m","e","t","h","o","d","o","l","o","g","y">>,
    <<"r","e","s","u","l","t","s">>,
    <<"d","i","s","c","u","s","s","i","o","n">>,
    <<"c","o","n","c","l","u","s","i","o","n">> >>,
   es |-> <<
    <<"i","n","t","r","o","d","u","c","c","i","U+00F3","n">>,
    <<"m","e","t","o","d","o","l","o","g","U+00ED","a">>,
    <<"r","e","s","u","l","t","a","d","o","s">>,
    <<"d","i","s","c","u","s","i","U+00F3","n">>,
    <<"c","o","n","c","l","u","s","i","U+00F3","n">> >>,
   fr |-> <<
    <<"i","n","t","r","o","d","u","c","t","i","o","n">>,
    <<"m","U+00E9","t","h","o","d","o","l","o","g","i","e">>,
    <<"r","U+00E9","s","u","l","t","a","t","s">>,
    <<"d","i","s","c","u","s","s","i","o","n">>,
    <<"c","o","n","c","l","u","s","i","o","n">> >>,
   de |-> <<
    <<"e","i","n","f","U+00FC","h","r","u","n","g">>,
    <<"m","e","t","h","o","d","i","k">>,
    <<"e","r","g","e","b","n","i","s","s","e">>,
    <<"d","i","s","k","u","s","s","i","o","n">>,
    <<"s","c","h","l","u","s","s","f","o","l","g","e","r","u","n","g">> >>,
   hi |-> <<
    <<"U+092A","U+0930","U+093F","U+091A","U+092F">>,
    <<"U+092A","U+0926","U+094D","U+0927","U+0924","U+093F">>,
    <<"U+092A","U+0930","U+093F","U+0923","U+093E","U+092E">>,
    <<"U+091A","U+0930","U+094D","U+091A","U+093E">>,
    <<"U+0928","U+093F","U+0937","U+094D","U+0915","U+0930","U+094D","U+0937">> >>]

TECHNICAL_TERMS ==
  [en |-> <<
    <<"a","n","a","l","y","s","i","s">>,
    <<"m","e","t","h","o","d">>,
    <<"p","r","o","c","e","s","s">>,
    <<"s","y","s","t","e","m">>,
    <<"d","a","t","a">>,
    <<"r","e","s","u","l","t">> >>,
   es |-> <<
    <<"a","n","U+00E1","l","i","s","i","s">>,
    <<"m","U+00E9","t","o","d","o">>,
    <<"p","r","o","c","e","s","o">>,
    <<"s","i","s","t","e","m","a">>,
    <<"d","a","t","o","s">>,
    <<"r","e","s","u","l","t","a","d","o">> >>,
   fr |-> <<
    <<"a","n","a","l","y","s","e">>,
    <<"m","U+00E9","t","h","o","d","e">>,
    <<"p","r","o","c","e","s","s","u","s">>,
    <<"s","y","s","t","U+00E8","m","e">>,
    <<"d","o","n","n","U+00E9","e","s">>,
    <<"r","U+00E9","s","u","l","t","a","t">> >>,
   de |-> <<
    <<"a","n","a","l","y","s","e">>,
    <<"m","e","t","h","o","d","e">>,
    <<"p","r","o","z","e","s","s">>,
    <<"s","y","s","t","e","m">>,
    <<"d","a","t","e","n">>,
    <<"e","r","g","e","b","n","i","s">> >>,
   hi |-> <<
    <<"U+0935","U+093F","U+0936","U+094D","U+0932","U+0947","U+0937","U+0923">>,
    <<"U+0935","U+093F","U+0927","U+093F">>,
    <<"U+092A","U+094D","U+0930","U+0915","U+094D","U+0930","U+093F","U+092F","U+093E">>,
    <<"U+0938","U+093F","U+0938","U+094D","U+091F","U+092E">>,
    <<"U+0921","U+0947","U+091F","U+093E">>,
    <<"U+092A","U+0930","U+093F","U+0923","U+093E","U+092E">> >>]

HEADING_KEYWORDS ==
  {<<"a","b","s","t","r","a","c","t">>,
   <<"b","a","c","k","g","r","o","u","n","d">>,
   <<"c","o","n","c","l","u","s","i","o","n">>,
   <<"d","i","s","c","u","s","s","i","o","n">>,
   <<"i","n","t","r","o","d","u","c","t","i","o","n">>,
   <<"m","e","t","h","o","d","o","l","o","g","y">>,
   <<"o","v","e","r","v","i","e","w">>,
   <<"r","e","f","e","r","e","n","c","e","s">>,
   <<"r","e","s","u","l","t","s">>,
   <<"s","u","m","m","a","r","y">>}

\* LANGUAGE_PATTERNS, in declaration order: the characters each class adds to
\* whitespace (and, for all but "hi", to a-z and A-Z). For "hi" the range
\* \u0900-\u097F is represented by the Devanagari characters of the tables.
LanguageOrder == <<"en", "es", "fr", "de", "hi", "it", "pt">>

PatternExtra ==
  [en |-> {},
   es |-> {"U+00E1","U+00E9","U+00ED","U+00F3","U+00FA","U+00F1","U+00FC","U+00C1","U+00C9","U+00CD","U+00D3","U+00DA","U+00D1","U+00DC"},
   fr |-> {"U+00E0","U+00E2","U+00E4","U+00E9","U+00E8","U+00EA","U+00EB","U+00EF","U+00EE","U+00F4","U+00F6","U+00F9","U+00FB","U+00FC","U+00FF","U+00E7","U+00C0","U+00C2","U+00C4","U+00C9","U+00C8","U+00CA","U+00CB","U+00CF","U+00CE","U+00D4","U+00D6","U+00D9","U+00DB","U+00DC","U+0178","U+00C7"},
   de |-> {"U+00E4","U+00F6","U+00FC","U+00DF","U+00C4","U+00D6","U+00DC"},
   hi |-> {"U+0915","U+091A","U+091F","U+0921","U+0923","U+0924","U+0926","U+0927","U+0928","U+092A","U+092E","U+092F","U+0930","U+0932","U+0935","U+0936","U+0937","U+0938","U+093E","U+093F","U+0947","U+094D"},
   it |-> {"U+00E0","U+00E8","U+00E9","U+00EC","U+00ED","U+00EE","U+00F2","U+00F3","U+00F9","U+00C0","U+00C8","U+00C9","U+00CC","U+00CD","U+00CE","U+00D2","U+00D3","U+00D9"},
   pt |-> {"U+00E0","U+00E1","U+00E2","U+00E3","U+00E7","U+00E9","U+00EA","U+00ED","U+00F3","U+00F4","U+00F5","U+00FA","U+00C0","U+00C1","U+00C2","U+00C3","U+00C7","U+00C9","U+00CA","U+00CD","U+00D3","U+00D4","U+00D5","U+00DA"}]

---------------------------------------------------------------------------
(* src/src/language_detector.py                                            *)

AsciiLetters == {LowerChars[i] : i \in 1..26} \cup {UpperChars[i] : i \in 1..26}

\* the character class of LANGUAGE_PATTERNS[lang]
PatternClass(lang) ==
  IF lang = "hi" THEN PatternExtra[lang] \cup Whitespace
  ELSE AsciiLetters \cup PatternExtra[lang] \cup Whitespace

\* len(re.findall(pattern, text)): the number of maximal runs of class characters
FindallCount(class, text) ==
  Cardinality({i \in 1..Len(text) :
                 text[i] \in class /\ (i = 1 \/ text[i - 1] \notin class)})

\* The outcome of one external detector: a language tag, "raise" when the call
\* raises, "unavailable" when the import failed (LANGDETECT_AVAILABLE False).
DetectorFailed(outcome) == outcome \in {"unavailable", "raise"}

_pattern_based_detection(text) ==
  LET text_lower == lower(text)
      matches(lang) == FindallCount(PatternClass(lang), text_lower)
      scored == {i \in DOMAIN LanguageOrder : matches(LanguageOrder[i]) > 0}
  IN IF scored # {}
     THEN \* max(lang_scores, key=lang_scores.get): first maximum in dict order;
          \* every density has the same denominator len(text_lower)
          LanguageOrder[CHOOSE i \in scored :
             \A j \in scored :
               /\ matches(LanguageOrder[j]) <= matches(LanguageOrder[i])
               /\ (matches(LanguageOrder[j]) = matches(LanguageOrder[i]) => i <= j)]
     ELSE "en"

\* the length test counting the characters that are not whitespace
TooShortCountingNonWhitespace(text) ==
  Cardinality({i \in 1..Len(text) : ~IsSpace(text[i])}) < 10

\* line 38: `not text or len(text.strip()) < 10`
TooShortToDetect(text) == Len(text) = 0 \/ Len(strip(text)) < 10

\* detect_language with langid tried before langdetect
DetectLangidFirst(text, det) ==
  IF TooShortToDetect(text) THEN "en"
  ELSE IF ~DetectorFailed(det.langid) THEN det.langid
  ELSE IF ~DetectorFailed(det.langdetect) THEN det.langdetect
  ELSE _pattern_based_detection(text)

\* det.langdetect and det.langid are the outcomes of langdetect.detect(text)
\* and langid.classify(text) for this text.
detect_language(text, det) ==
  IF TooShortToDetect(text) THEN "en"
  ELSE IF ~DetectorFailed(det.langdetect) THEN det.langdetect
  ELSE IF ~DetectorFailed(det.langid) THEN det.langid
  ELSE _pattern_based_detection(text)

\* the strategies detect_language calls, in the order of the calls: detect
\* and langid.classify are called where the import succeeded, the second
\* and the third only after every call before has raised or was skipped
DetectInvokes(text, det) ==
  IF TooShortToDetect(text) THEN <<>>
  ELSE (IF det.langdetect # "unavailable" THEN <<"langdetect">> ELSE <<>>)
         \o (IF ~DetectorFailed(det.langdetect) THEN <<>>
             ELSE (IF det.langid # "unavailable" THEN <<"langid">> ELSE <<>>)
                    \o (IF ~DetectorFailed(det.langid) THEN <<>> ELSE <<"pattern">>))

---------------------------------------------------------------------------
(* src/src/relevance_analyzer.py                                           *)

\* Scores are fixed-point: one unit is 1/ScoreScale of a point.
ScoreScale == 100 * 100

Lookup(table, key) == IF key \in DOMAIN table THEN table[key] ELSE EmptyDict

GetDefault(table, key, default) == IF key \in DOMAIN table THEN table[key] ELSE default

\* the two updates in the other order: the persona's weight kept on a collision
KeywordsPersonaLast(persona, job, language) ==
  LET persona_keywords == Lookup(Lookup(PERSONA_KNOWLEDGE, persona), "keywords")
      job_keywords == Lookup(Lookup(JOB_PATTERNS, job), "keywords")
      persona_lang_keywords ==
        GetDefault(persona_keywords, language, Lookup(persona_keywords, "en"))
      job_lang_keywords ==
        GetDefault(job_keywords, language, Lookup(job_keywords, "en"))
  IN Update(Update(EmptyDict, job_lang_keywords), persona_lang_keywords)

get_keywords_for_language(persona, job, language) ==
  LET persona_keywords == Lookup(Lookup(PERSONA_KNOWLEDGE, persona), "keywords")
      job_keywords == Lookup(Lookup(JOB_PATTERNS, job), "keywords")
      persona_lang_keywords ==
        GetDefault(persona_keywords, language, Lookup(persona_keywords, "en"))
      job_lang_keywords ==
        GetDefault(job_keywords, language, Lookup(job_keywords, "en"))
  IN Update(Update(EmptyDict, persona_lang_keywords), job_lang_keywords)

\* the share of the keywords found, each counting 1 whatever its weight
KeywordScoreUnweighted(text_lower, keywords) ==
  LET found == Cardinality({k \in DOMAIN keywords : Contains(k, text_lower)})
      all == IF DOMAIN keywords # {} THEN Cardinality(DOMAIN keywords) ELSE 1
  IN (found * 40 * ScoreScale) \div all

\* Component 1: (keyword_score / max_keyword_score) * 40
KeywordScore(text_lower, keywords) ==
  LET keyword_score == SumOver(keywords, {k \in DOMAIN keywords : Contains(k, text_lower)})
      max_keyword_score ==
        IF DOMAIN keywords # {} THEN SumOver(keywords, DOMAIN keywords) ELSE 1
  IN (keyword_score * 40 * ScoreScale) \div max_keyword_score

\* Component 2: similarity * 30 when a sentence model is set and encode() does
\* not raise.  model.kind is "none" (sentence_model is None), "raise" (encode
\* raises) or "ok", and then model.similarity is the cosine similarity in
\* units of 1/ScoreScale.
NoModel == [kind |-> "none", similarity |-> 0]

RaisingModel == [kind |-> "raise", similarity |-> 0]

ModelReturning(similarity) == [kind |-> "ok", similarity |-> similarity]

SimilarityScore(model) ==
  IF model.kind = "ok" THEN model.similarity * 30 ELSE 0

\* one point for a section keyword in place of 5
StructureScoreOfOnePoint(text_lower, language) ==
  LET lang_sections == GetDefault(SECTION_KEYWORDS, language, SECTION_KEYWORDS["en"])
      structure_score ==
        Cardinality({i \in DOMAIN lang_sections : Contains(lang_sections[i], text_lower)})
  IN Min(structure_score, 20)

_calculate_structure_score(text_lower, language) ==
  LET lang_sections == GetDefault(SECTION_KEYWORDS, language, SECTION_KEYWORDS["en"])
      structure_score ==
        5 * Cardinality({i \in DOMAIN lang_sections : Contains(lang_sections[i], text_lower)})
  IN Min(structure_score, 20)

TechnicalPersonas == {"researcher", "developer", "analyst"}

\* the second length test made with `if` in place of `elif`
QualityScoreBothLengthTests(text, language, persona) ==
  LET length_points ==
        (IF 50 <= Len(text) /\ Len(text) <= 500 THEN 5 ELSE 0)
          + (IF 20 <= Len(text) /\ Len(text) <= 1000 THEN 3 ELSE 0)
      sentences == sent_tokenize(text)
      sentence_points ==
        IF 1 <= Len(sentences) /\ Len(sentences) <= 5 THEN 3 ELSE 0
      lang_terms == GetDefault(TECHNICAL_TERMS, language, TECHNICAL_TERMS["en"])
      term_points ==
        IF /\ persona \in TechnicalPersonas
           /\ \E i \in DOMAIN lang_terms : Contains(lang_terms[i], lower(text))
        THEN 2 ELSE 0
  IN length_points + sentence_points + term_points

_calculate_quality_score(text, language, persona) ==
  LET length_points ==
        IF 50 <= Len(text) /\ Len(text) <= 500 THEN 5
        ELSE IF 20 <= Len(text) /\ Len(text) <= 1000 THEN 3
        ELSE 0
      sentences == sent_tokenize(text)
      sentence_points ==
        IF 1 <= Len(sentences) /\ Len(sentences) <= 5 THEN 3 ELSE 0
      lang_terms == GetDefault(TECHNICAL_TERMS, language, TECHNICAL_TERMS["en"])
      term_points ==
        IF /\ persona \in TechnicalPersonas
           /\ \E i \in DOMAIN lang_terms : Contains(lang_terms[i], lower(text))
        THEN 2 ELSE 0
  IN length_points + sentence_points + term_points

\* Clamp with the lower bound left out: min(100, relevance_score)
ClampWithoutFloor(relevance_score) == Min(100 * ScoreScale, relevance_score)

\* min(100, max(0, relevance_score))
Clamp(relevance_score) == Min(100 * ScoreScale, Max(0, relevance_score))

\* the length test made on the text as it is, not on text.strip()
NotScoredUntrimmed(text) == text = None \/ Len(text) < 10

\* `if not text or len(text.strip()) < 10`
NotScored(text) == text = None \/ Len(text) = 0 \/ Len(strip(text)) < 10

\* the except branch of the similarity step returning 0.0 for the whole score
ScoreZeroWhenEncodeRaises(text, persona, job, det, model) ==
  IF NotScored(text) \/ model.kind = "raise" THEN 0
  ELSE LET detected_lang == detect_language(text, det)
           text_lower == lower(text)
           keywords == get_keywords_for_language(persona, job, detected_lang)
           keyword_score == KeywordScore(text_lower, keywords)
           structure_score == _calculate_structure_score(text_lower, detected_lang)
           quality_score == _calculate_quality_score(text, detected_lang, persona)
       IN Clamp(keyword_score + SimilarityScore(model)
                  + structure_score * ScoreScale + quality_score * ScoreScale)

calculate_semantic_relevance_multilingual(text, persona, job, det, model) ==
  IF NotScored(text) THEN 0
  ELSE LET detected_lang == detect_language(text, det)
           text_lower == lower(text)
           keywords == get_keywords_for_language(persona, job, detected_lang)
           keyword_score == KeywordScore(text_lower, keywords)
           structure_score == _calculate_structure_score(text_lower, detected_lang)
           quality_score == _calculate_quality_score(text, detected_lang, persona)
       IN Clamp(keyword_score + SimilarityScore(model)
                  + structure_score * ScoreScale + quality_score * ScoreScale)

\* what one call of calculate_semantic_relevance_multilingual invokes outside
\* the analyzer: the language detector, the sentence model, the tokenizer
ScoreInvokes(text, model) ==
  IF NotScored(text) THEN {}
  ELSE {"detect_language", "sent_tokenize"}
         \cup (IF model.kind = "none" THEN {} ELSE {"encode"})

\* the hundredths of the score, the rest cut off
Round2TowardsZero(score) ==
  LET unit == ScoreScale \div 100
  IN (score \div unit) * unit

\* float(round(relevance_score, 2)): nearest hundredth, ties to even
Round2(score) ==
  LET unit == ScoreScale \div 100
      q == score \div unit
      r == score % unit
  IN IF 2 * r > unit \/ (2 * r = unit /\ q % 2 = 1) THEN (q + 1) * unit ELSE q * unit

\* sorted(xs, key=..., reverse=True) is stable: elements with equal keys keep
\* their order.  SortedDescPerm(keys) is the order in which the indices of keys
\* come out: each index is inserted after every index whose key is >= its own.
\* InsertDesc placing an index before the indices of equal key, as an unstable
\* sort may
RECURSIVE InsertDescBeforeTies(_, _, _)
InsertDescBeforeTies(i, sorted, keys) ==
  IF Len(sorted) = 0 THEN <<i>>
  ELSE IF keys[Head(sorted)] > keys[i]
       THEN <<Head(sorted)>> \o InsertDescBeforeTies(i, Tail(sorted), keys)
       ELSE <<i>> \o sorted

RECURSIVE InsertDesc(_, _, _)
InsertDesc(i, sorted, keys) ==
  IF Len(sorted) = 0 THEN <<i>>
  ELSE IF keys[Head(sorted)] >= keys[i]
       THEN <<Head(sorted)>> \o InsertDesc(i, Tail(sorted), keys)
       ELSE <<i>> \o sorted

RECURSIVE SortedPrefix(_, _)
SortedPrefix(keys, n) ==
  IF n = 0 THEN <<>>
  ELSE InsertDesc(n, SortedPrefix(keys, n - 1), keys)

SortedDescPerm(keys) == SortedPrefix(keys, Len(keys))

\* sorted(xs, key=...)[::-1]: descending, elements of equal key reversed
SortedAscReversed(xs, keys) ==
  LET n == Len(xs)
      perm == SortedDescPerm([i \in 1..n |-> keys[n + 1 - i]])
  IN [i \in 1..n |-> xs[n + 1 - perm[i]]]

SortedDesc(xs, keys) ==
  LET perm == SortedDescPerm(keys)
  IN [i \in 1..Len(xs) |-> xs[perm[i]]]

PairScore(pair) == pair[2]

PairText(pair) == pair[1]

\* the refinement keeping a sentence that scores 20: `s[1] >= 20`
RefineKeepingTwenty(content, persona, job, det, model) ==
  LET sentences == sent_tokenize(content)
      scored ==
        [i \in 1..Len(sentences) |->
           <<sentences[i],
             calculate_semantic_relevance_multilingual(sentences[i], persona, job, det, model)>>]
      scored_sentences ==
        SortedDesc(scored, [i \in 1..Len(scored) |-> PairScore(scored[i])])
      max_sentences == IF persona \in {"researcher", "analyst"} THEN 4 ELSE 3
      top == Take(scored_sentences, max_sentences)
      kept == SelectSeq(top, LAMBDA s : PairScore(s) >= 20 * ScoreScale)
      selected_sentences == [i \in 1..Len(kept) |-> PairText(kept[i])]
  IN IF Len(selected_sentences) > 0 THEN Join(selected_sentences) ELSE Take(content, 300)

\* the refinement without its fallback: ' '.join(selected_sentences) alone
RefineWithoutFallback(content, persona, job, det, model) ==
  LET sentences == sent_tokenize(content)
      scored ==
        [i \in 1..Len(sentences) |->
           <<sentences[i],
             calculate_semantic_relevance_multilingual(sentences[i], persona, job, det, model)>>]
      scored_sentences ==
        SortedDesc(scored, [i \in 1..Len(scored) |-> PairScore(scored[i])])
      max_sentences == IF persona \in {"researcher", "analyst"} THEN 4 ELSE 3
      top == Take(scored_sentences, max_sentences)
      kept == SelectSeq(top, LAMBDA s : PairScore(s) > 20 * ScoreScale)
  IN Join([i \in 1..Len(kept) |-> PairText(kept[i])])

refine_content_for_persona(content, persona, job, det, model) ==
  LET sentences == sent_tokenize(content)
      scored ==
        [i \in 1..Len(sentences) |->
           <<sentences[i],
             calculate_semantic_relevance_multilingual(sentences[i], persona, job, det, model)>>]
      scored_sentences ==
        SortedDesc(scored, [i \in 1..Len(scored) |-> PairScore(scored[i])])
      max_sentences == IF persona \in {"researcher", "analyst"} THEN 4 ELSE 3
      top == Take(scored_sentences, max_sentences)
      kept == SelectSeq(top, LAMBDA s : PairScore(s) > 20 * ScoreScale)
      selected_sentences == [i \in 1..Len(kept) |-> PairText(kept[i])]
  IN IF Len(selected_sentences) > 0 THEN Join(selected_sentences) ELSE Take(content, 300)

---------------------------------------------------------------------------
(* Sample texts.                                                           *)

\* "Methodology: This study used a randomized controlled experiment with statistical analysis of variance."
TxtMethodology ==
  <<"M","e","t","h","o","d","o","l","o","g","y",":"," ","T","h","i","s"," ","s","t","u","d","y"," ","u","s","e","d"," ","a"," ","r","a","n","d","o","m","i","z","e","d"," ","c","o","n","t","r","o","l","l","e","d"," ","e","x","p","e","r","i","m","e","n","t"," ","w","i","t","h"," ","s","t","a","t","i","s","t","i","c","a","l"," ","a","n","a","l","y","s","i","s"," ","o","f"," ","v","a","r","i","a","n","c","e",".">>

\* "2."
TxtNumber ==
  <<"2",".">>

\* "Methodology"
TxtMethodologyTitle ==
  <<"M","e","t","h","o","d","o","l","o","g","y">>

\* "This study reviews the literature on experiment design and data analysis."
TxtLiterature ==
  <<"T","h","i","s"," ","s","t","u","d","y"," ","r","e","v","i","e","w","s"," ","t","h","e"," ","l","i","t","e","r","a","t","u","r","e"," ","o","n"," ","e","x","p","e","r","i","m","e","n","t"," ","d","e","s","i","g","n"," ","a","n","d"," ","d","a","t","a"," ","a","n","a","l","y","s","i","s",".">>

\* "The experiment tested one hypothesis about sampling and correlation in the data."
TxtExperiment ==
  <<"T","h","e"," ","e","x","p","e","r","i","m","e","n","t"," ","t","e","s","t","e","d"," ","o","n","e"," ","h","y","p","o","t","h","e","s","i","s"," ","a","b","o","u","t"," ","s","a","m","p","l","i","n","g"," ","a","n","d"," ","c","o","r","r","e","l","a","t","i","o","n"," ","i","n"," ","t","h","e"," ","d","a","t","a",".">>

\* "Results"
TxtResultsTitle ==
  <<"R","e","s","u","l","t","s">>

\* "Our findings show a significant correlation between the variables under study."
TxtFindings ==
  <<"O","u","r"," ","f","i","n","d","i","n","g","s"," ","s","h","o","w"," ","a"," ","s","i","g","n","i","f","i","c","a","n","t"," ","c","o","r","r","e","l","a","t","i","o","n"," ","b","e","t","w","e","e","n"," ","t","h","e"," ","v","a","r","i","a","b","l","e","s"," ","u","n","d","e","r"," ","s","t","u","d","y",".">>

\* "A later paper and a second publication close this research gap with new findings."
TxtGap ==
  <<"A"," ","l","a","t","e","r"," ","p","a","p","e","r"," ","a","n","d"," ","a"," ","s","e","c","o","n","d"," ","p","u","b","l","i","c","a","t","i","o","n"," ","c","l","o","s","e"," ","t","h","i","s"," ","r","e","s","e","a","r","c","h"," ","g","a","p"," ","w","i","t","h"," ","n","e","w"," ","f","i","n","d","i","n","g","s",".">>

\* "Page 1"
TxtPageNo ==
  <<"P","a","g","e"," ","1">>

\* "data gap study."
TxtShortAdmitted ==
  <<"d","a","t","a"," ","g","a","p"," ","s","t","u","d","y",".">>

\* "The paper ties each hypothesis and experiment of the study to findings, statistics, correlation, significance and a research gap."
TxtBoundary ==
  <<"T","h","e"," ","p","a","p","e","r"," ","t","i","e","s"," ","e","a","c","h"," ","h","y","p","o","t","h","e","s","i","s"," ","a","n","d"," ","e","x","p","e","r","i","m","e","n","t"," ","o","f"," ","t","h","e"," ","s","t","u","d","y"," ","t","o"," ","f","i","n","d","i","n","g","s",","," ","s","t","a","t","i","s","t","i","c","s",","," ","c","o","r","r","e","l","a","t","i","o","n",","," ","s","i","g","n","i","f","i","c","a","n","c","e"," ","a","n","d"," ","a"," ","r","e","s","e","a","r","c","h"," ","g","a","p",".">>

\* "1. Introduction"
TxtIntroTitle ==
  <<"1","."," ","I","n","t","r","o","d","u","c","t","i","o","n">>

\* "This part explains the topic in plain words for everyone here."
TxtPlain ==
  <<"T","h","i","s"," ","p","a","r","t"," ","e","x","p","l","a","i","n","s"," ","t","h","e"," ","t","o","p","i","c"," ","i","n"," ","p","l","a","i","n"," ","w","o","r","d","s"," ","f","o","r"," ","e","v","e","r","y","o","n","e"," ","h","e","r","e",".">>

\* "The system."
TxtSystem ==
  <<"T","h","e"," ","s","y","s","t","e","m",".">>

\* "References"
TxtReferences ==
  <<"R","e","f","e","r","e","n","c","e","s">>

\* "Each citation in this paper points to a publication that the study relies on."
TxtCitation ==
  <<"E","a","c","h"," ","c","i","t","a","t","i","o","n"," ","i","n"," ","t","h","i","s"," ","p","a","p","e","r"," ","p","o","i","n","t","s"," ","t","o"," ","a"," ","p","u","b","l","i","c","a","t","i","o","n"," ","t","h","a","t"," ","t","h","e"," ","s","t","u","d","y"," ","r","e","l","i","e","s"," ","o","n",".">>

\* "Conclusion and future work of this research study"
TxtConclusionTitle ==
  <<"C","o","n","c","l","u","s","i","o","n"," ","a","n","d"," ","f","u","t","u","r","e"," ","w","o","r","k"," ","o","f"," ","t","h","i","s"," ","r","e","s","e","a","r","c","h"," ","s","t","u","d","y">>

\* "  "
TxtBlank ==
  <<" "," ">>

\* "   data   "
TxtPadded ==
  <<" "," "," ","d","a","t","a"," "," "," ">>

\* "a b c d e f"
TxtSpaced ==
  <<"a"," ","b"," ","c"," ","d"," ","e"," ","f">>

\* "ABC"
TxtAbc ==
  <<"A","B","C">>

\* "RELATED WORK"
TxtAllCaps ==
  <<"R","E","L","A","T","E","D"," ","W","O","R","K">>

\* "1.1 Scope"
TxtSubNumbered ==
  <<"1",".","1"," ","S","c","o","p","e">>

\* "Chapter 1"
TxtChapter ==
  <<"C","h","a","p","t","e","r"," ","1">>

\* "Section 2 of the text"
TxtSectionNo ==
  <<"S","e","c","t","i","o","n"," ","2"," ","o","f"," ","t","h","e"," ","t","e","x","t">>

\* " data gaps "
TxtNineTrimmed ==
  <<" ","d","a","t","a"," ","g","a","p","s"," ">>

\* "paper.pdf"
NamePaper ==
  <<"p","a","p","e","r",".","p","d","f">>

\* "broken.pdf"
NameBroken ==
  <<"b","r","o","k","e","n",".","p","d","f">>

\* "survey.PDF"
NameSurvey ==
  <<"s","u","r","v","e","y",".","P","D","F">>

\* "mixed.pdf"
NameMixed ==
  <<"m","i","x","e","d",".","p","d","f">>

\* "paper.pdf.bak"
NameBackup ==
  <<"p","a","p","e","r",".","p","d","f",".","b","a","k">>

\* ".pdf"
PdfSuffix ==
  <<".","p","d","f">>

\* "Unknown"
Unknown ==
  <<"U","n","k","n","o","w","n">>


---------------------------------------------------------------------------
(* src/src/document_extractor.py                                           *)
(*                                                                         *)
(* A PDF as PyMuPDF presents it: raw.opens is FALSE when fitz.open raises; *)
(* raw.pages is the page list; page.corrupt is TRUE when get_text raises;  *)
(* page.blocks is get_text("dict")["blocks"]; a text block has the field   *)
(* lines, an image block has not; a line is its list of spans; a span has  *)
(* text, size (in 1/100 pt), flags, font and bbox.                         *)

Digits == {"0","1","2","3","4","5","6","7","8","9"}

UpperAscii == {UpperChars[i] : i \in 1..26}

\* first position >= from whose character is outside class (Len + 1 if none)
RunEnd(text, from, class) ==
  CHOOSE i \in from..(Len(text) + 1) :
    /\ i = Len(text) + 1 \/ text[i] \notin class
    /\ \A j \in from..(i - 1) : text[j] \in class

StartsWith(text, prefix) ==
  /\ Len(prefix) <= Len(text)
  /\ \A i \in 1..Len(prefix) : text[i] = prefix[i]

EndsWith(text, suffix) ==
  /\ Len(suffix) <= Len(text)
  /\ \A i \in 1..Len(suffix) : text[Len(text) - Len(suffix) + i] = suffix[i]

\* \s+[A-Z] matched at position from
SpacesThenCapital(text, from) ==
  LET s == RunEnd(text, from, Whitespace)
  IN s > from /\ s <= Len(text) /\ text[s] \in UpperAscii

\* r'^\d+\.\s+[A-Z]'
NumberedHeading(text) ==
  LET d == RunEnd(text, 1, Digits)
  IN d > 1 /\ d <= Len(text) /\ text[d] = "." /\ SpacesThenCapital(text, d + 1)

\* r'^\d+\.\d+\s+[A-Z]'
SubNumberedHeading(text) ==
  LET d == RunEnd(text, 1, Digits)
  IN /\ d > 1 /\ d <= Len(text) /\ text[d] = "."
     /\ LET e == RunEnd(text, d + 1, Digits)
        IN e > d + 1 /\ SpacesThenCapital(text, e)

\* r'^[A-Z][A-Z\s]{3,}$'
AllCapsHeading(text) ==
  /\ Len(text) >= 4
  /\ text[1] \in UpperAscii
  /\ \A i \in 2..Len(text) : text[i] \in UpperAscii \cup Whitespace

\* r'^Chapter\s+\d+' and r'^Section\s+\d+'
WordNumberHeading(text, word) ==
  /\ StartsWith(text, word)
  /\ LET s == RunEnd(text, Len(word) + 1, Whitespace)
     IN s > Len(word) + 1 /\ s <= Len(text) /\ text[s] \in Digits

\* any(re.match(pattern, text) for pattern in HEADING_PATTERNS)
MatchesHeadingPattern(text) ==
  \/ NumberedHeading(text)
  \/ SubNumberedHeading(text)
  \/ AllCapsHeading(text)
  \/ WordNumberHeading(text, <<"C","h","a","p","t","e","r">>)
  \/ WordNumberHeading(text, <<"S","e","c","t","i","o","n">>)

\* the classification with the font rule tried before the length test
HeadingFontRuleFirst(text_block) ==
  LET text == text_block.text
  IN IF text_block.font_size > 1200 /\ text_block.is_bold THEN TRUE
     ELSE IF Len(text) < 3 \/ Len(text) > 200 THEN FALSE
     ELSE IF MatchesHeadingPattern(text) THEN TRUE
     ELSE \E keyword \in HEADING_KEYWORDS : Contains(keyword, lower(text))

_is_heading_advanced(text_block) ==
  LET text == text_block.text
  IN IF Len(text) < 3 \/ Len(text) > 200 THEN FALSE
     ELSE IF text_block.font_size > 1200 /\ text_block.is_bold THEN TRUE
     ELSE IF MatchesHeadingPattern(text) THEN TRUE
     ELSE \E keyword \in HEADING_KEYWORDS : Contains(keyword, lower(text))

\* round(font_size, 1), sizes in 1/100 pt
Round1(size) ==
  LET q == size \div 10
      r == size % 10
  IN IF 2 * r > 10 \/ (2 * r = 10 /\ q % 2 = 1) THEN (q + 1) * 10 ELSE q * 10

\* bool(flags & 2**4)
BoldFlag(flags) == (flags \div 16) % 2 = 1

NonBlank(span) == strip(span.text) # <<>>

\* line_text: every non-blank span text, stripped, each followed by one space
RECURSIVE LineText(_)
LineText(spans) ==
  IF Len(spans) = 0 THEN <<>>
  ELSE (IF NonBlank(Head(spans)) THEN strip(Head(spans).text) \o <<" ">> ELSE <<>>)
         \o LineText(Tail(spans))

\* the lines of the text blocks of a page, in order
RECURSIVE PageLines(_)
PageLines(blocks) ==
  IF Len(blocks) = 0 THEN <<>>
  ELSE (IF "lines" \in DOMAIN Head(blocks) THEN Head(blocks).lines ELSE <<>>)
         \o PageLines(Tail(blocks))

HasText(line) == strip(LineText(line)) # <<>> /\ SelectSeq(line, NonBlank) # <<>>

TextBlockOf(line, det) ==
  LET primary_span == SelectSeq(line, NonBlank)[1]
      text == strip(LineText(line))
  IN [text |-> text,
      font_size |-> Round1(primary_span.size),
      is_bold |-> BoldFlag(primary_span.flags),
      font_name |-> primary_span.font,
      bbox |-> primary_span.bbox,
      language |-> detect_language(text, det)]

\* every text block appended to body_text, the headings as well
PageContentAllInBody(page, page_num, det) ==
  LET lines == SelectSeq(PageLines(page.blocks), HasText)
      text_blocks == [i \in 1..Len(lines) |-> TextBlockOf(lines[i], det)]
  IN [page_number |-> page_num + 1,
      text_blocks |-> text_blocks,
      headings |-> SelectSeq(text_blocks, _is_heading_advanced),
      body_text |-> text_blocks,
      languages |-> {text_blocks[i].language : i \in 1..Len(text_blocks)}]

PageContent(page, page_num, det) ==
  LET lines == SelectSeq(PageLines(page.blocks), HasText)
      text_blocks == [i \in 1..Len(lines) |-> TextBlockOf(lines[i], det)]
  IN [page_number |-> page_num + 1,
      text_blocks |-> text_blocks,
      headings |-> SelectSeq(text_blocks, _is_heading_advanced),
      body_text |-> SelectSeq(text_blocks, LAMBDA b : ~_is_heading_advanced(b)),
      languages |-> {text_blocks[i].language : i \in 1..Len(text_blocks)}]

ExtractionFails(raw) ==
  ~raw.opens \/ \E i \in 1..Len(raw.pages) : raw.pages[i].corrupt

\* the except branch: {'pages': [], 'sections': [], 'metadata': {}}
EmptyContent == [pages |-> <<>>, sections |-> <<>>, metadata |-> EmptyDict]

\* An extraction that keeps the pages read before the failing one
ExtractPagesBeforeFailure(raw, det) ==
  IF ~raw.opens THEN EmptyContent
  ELSE LET readable == {n \in 0..Len(raw.pages) : \A i \in 1..n : ~raw.pages[i].corrupt}
           last == CHOOSE n \in readable : \A m \in readable : m <= n
           pages == [i \in 1..last |-> PageContent(raw.pages[i], i - 1, det)]
       IN [pages |-> pages,
           sections |-> <<>>,
           metadata |->
             [total_pages |-> Len(raw.pages),
              detected_languages |->
                UNION {pages[i].languages : i \in 1..Len(pages)}]]

extract_document_content_multilingual(raw, det) ==
  IF ExtractionFails(raw) THEN EmptyContent
  ELSE LET pages == [i \in 1..Len(raw.pages) |-> PageContent(raw.pages[i], i - 1, det)]
       IN [pages |-> pages,
           sections |-> <<>>,
           metadata |->
             [total_pages |-> Len(raw.pages),
              detected_languages |->
                UNION {pages[i].languages : i \in 1..Len(pages)}]]

\* the association without its limit of three blocks
FindContentUnlimited(heading, body_text, all_pages, current_page) ==
  LET below == SelectSeq(body_text, LAMBDA b : b.bbox[2] > heading.bbox[2])
      same_page == [i \in 1..Len(below) |-> below[i].text]
      next_body == all_pages[current_page + 1].body_text
      associated_content ==
        IF Len(same_page) = 0 /\ current_page < Len(all_pages)
        THEN [i \in 1..Len(next_body) |-> next_body[i].text]
        ELSE same_page
  IN Join(associated_content)

_find_associated_content(heading, body_text, all_pages, current_page) ==
  LET below == SelectSeq(body_text, LAMBDA b : b.bbox[2] > heading.bbox[2])
      same_page == [i \in 1..Len(below) |-> below[i].text]
      next_body == all_pages[current_page + 1].body_text
      associated_content ==
        IF Len(same_page) = 0 /\ current_page < Len(all_pages)
        THEN [i \in 1..Len(next_body) |-> next_body[i].text]
        ELSE same_page
  IN Join(Take(associated_content, 3))

---------------------------------------------------------------------------
(* src/src/persona_processor.py: the pure parts                            *)

\* 5 minutes limit of check_time_limit, in seconds
TimeLimit == 300

start_time == 0

\* check_time_limit: False once the elapsed time is above the limit
check_time_limit(clock) == ~(clock - start_time > TimeLimit)

HeadingThreshold == 15

BodyThreshold == 20

\* `if relevance_score > 15` for a heading with its associated content
AdmitsHeading(relevance_score) == relevance_score > HeadingThreshold * ScoreScale

\* the body threshold read as `>= 20`
AdmitsBodyInclusive(relevance_score) == relevance_score >= BodyThreshold * ScoreScale

\* `if relevance_score > 20` for a body block
AdmitsBody(relevance_score) == relevance_score > BodyThreshold * ScoreScale

\* str(n) for a page number
DigitChars == <<"0","1","2","3","4","5","6","7","8","9">>

RECURSIVE IntToStr(_)
IntToStr(n) ==
  IF n < 10 THEN <<DigitChars[n + 1]>>
  ELSE IntToStr(n \div 10) \o <<DigitChars[(n % 10) + 1]>>

ContentFromPage(page_num) ==
  <<"C","o","n","t","e","n","t"," ","f","r","o","m"," ","p","a","g","e"," ">>
    \o IntToStr(page_num)

Filename(content) == GetDefault(content.metadata, "filename", Unknown)

\* the candidate Section of a heading and its score before rounding
HeadingScore(content, page_content, heading, persona, job, det, model) ==
  LET associated_content ==
        _find_associated_content(heading, page_content.body_text, content.pages,
                                 page_content.page_number)
      combined_text == heading.text \o <<" ">> \o associated_content
  IN calculate_semantic_relevance_multilingual(combined_text, persona, job, det, model)

HeadingSection(content, page_content, heading, relevance_score) ==
  [document |-> Filename(content),
   page |-> page_content.page_number,
   section_title |-> heading.text,
   content |-> _find_associated_content(heading, page_content.body_text, content.pages,
                                        page_content.page_number),
   relevance_score |-> Round2(relevance_score),
   font_size |-> heading.font_size,
   is_bold |-> heading.is_bold,
   language |-> GetDefault(heading, "language", "en")]

BodySection(content, page_content, text_block, relevance_score) ==
  [document |-> Filename(content),
   page |-> page_content.page_number,
   section_title |-> ContentFromPage(page_content.page_number),
   content |-> text_block.text,
   relevance_score |-> Round2(relevance_score),
   font_size |-> text_block.font_size,
   is_bold |-> text_block.is_bold,
   language |-> GetDefault(text_block, "language", "en")]

_get_persona_focus_areas(persona) ==
  GetDefault(Lookup(PERSONA_KNOWLEDGE, persona), "focus_areas", <<>>)

_get_job_alignment(job) ==
  GetDefault(Lookup(JOB_PATTERNS, job), "focus", "General content")

\* the content test of create_subsection_analysis_advanced
\* the length test of the scoring function (10) in place of 20
TooShortUnderTen(section) ==
  LET content == GetDefault(section, "content", <<>>)
  IN Len(content) = 0 \/ Len(strip(content)) < 10

TooShortForSubsection(section) ==
  LET content == GetDefault(section, "content", <<>>)
  IN Len(content) = 0 \/ Len(strip(content)) < 20

\* the Subsection scored afresh instead of carrying the Section's score
SubsectionOfUnscored(section, refined_text, persona, job) ==
  [document |-> section.document,
   page |-> section.page,
   section_title |-> section.section_title,
   refined_text |-> refined_text,
   relevance_score |-> 0,
   persona_focus |-> _get_persona_focus_areas(persona),
   job_alignment |-> _get_job_alignment(job)]

SubsectionOf(section, refined_text, persona, job) ==
  [document |-> section.document,
   page |-> section.page,
   section_title |-> section.section_title,
   refined_text |-> refined_text,
   relevance_score |-> section.relevance_score,
   persona_focus |-> _get_persona_focus_areas(persona),
   job_alignment |-> _get_job_alignment(job)]

max_sections == 10

max_subsections == 15

SectionLengthOk(section) ==
  LET content_length == Len(GetDefault(section, "content", <<>>))
  IN 50 <= content_length /\ content_length <= 2000

SubsectionLengthOk(subsection) ==
  LET refined_length == Len(GetDefault(subsection, "refined_text", <<>>))
  IN 30 <= refined_length /\ refined_length <= 1000

Scores(items) == [i \in 1..Len(items) |-> items[i].relevance_score]

\* the caps applied before the length filters instead of after them
RankTruncatingFirst(sections, subsections) ==
  LET ranked_sections == SortedDesc(sections, Scores(sections))
      ranked_subsections == SortedDesc(subsections, Scores(subsections))
  IN <<SelectSeq(Take(ranked_sections, max_sections), SectionLengthOk),
       SelectSeq(Take(ranked_subsections, max_subsections), SubsectionLengthOk)>>

rank_and_filter_results_advanced(sections, subsections) ==
  LET ranked_sections == SortedDesc(sections, Scores(sections))
      filtered_sections == SelectSeq(ranked_sections, SectionLengthOk)
      ranked_subsections == SortedDesc(subsections, Scores(subsections))
      filtered_subsections == SelectSeq(ranked_subsections, SubsectionLengthOk)
  IN <<Take(filtered_sections, max_sections), Take(filtered_subsections, max_subsections)>>

\* content[:200] + "..." if len(content) > 200 else content
ContentPreview(section) ==
  LET content == GetDefault(section, "content", <<>>)
  IN IF Len(content) > 200 THEN Take(content, 200) \o <<".",".",".">> ELSE content

\* the rank taken from enumerate without the `+ 1`
ExtractedSectionZeroBased(section, i) ==
  [document |-> section.document,
   page |-> section.page,
   section_title |-> section.section_title,
   importance_rank |-> i - 1,
   relevance_score |-> section.relevance_score,
   content_preview |-> ContentPreview(section),
   language |-> GetDefault(section, "language", "en")]

\* the output entry with the default tag in place of the Section's tag
ExtractedSectionUntagged(section, i) ==
  [document |-> section.document,
   page |-> section.page,
   section_title |-> section.section_title,
   importance_rank |-> i,
   relevance_score |-> section.relevance_score,
   content_preview |-> ContentPreview(section),
   language |-> "en"]

ExtractedSection(section, i) ==
  [document |-> section.document,
   page |-> section.page,
   section_title |-> section.section_title,
   importance_rank |-> i,
   relevance_score |-> section.relevance_score,
   content_preview |-> ContentPreview(section),
   language |-> GetDefault(section, "language", "en")]

SubsectionAnalysis(subsection) ==
  [document |-> subsection.document,
   page |-> subsection.page,
   section_title |-> subsection.section_title,
   refined_text |-> subsection.refined_text,
   relevance_score |-> subsection.relevance_score,
   persona_focus |-> subsection.persona_focus,
   job_alignment |-> subsection.job_alignment,
   language |-> GetDefault(subsection, "language", "en")]

\* the two totals taken from each other's list
SuccessResultTotalsCrossed(pdf_files, persona, job, ranked_sections, ranked_subsections, languages) ==
  LET extracted_sections ==
        [i \in 1..Len(ranked_sections) |-> ExtractedSection(ranked_sections[i], i)]
      subsection_analysis ==
        [i \in 1..Len(ranked_subsections) |-> SubsectionAnalysis(ranked_subsections[i])]
  IN [metadata |->
        [input_documents |-> pdf_files,
         persona |-> persona,
         job_to_be_done |-> job,
         total_sections_found |-> Len(subsection_analysis),
         total_subsections_found |-> Len(extracted_sections),
         algorithm_version |-> "3.0_multilingual",
         detected_languages |-> languages,
         multilingual_support |-> TRUE],
      extracted_sections |-> extracted_sections,
      subsection_analysis |-> subsection_analysis]

\* the dict returned on success (timestamps and the reasoning strings left out)
SuccessResult(pdf_files, persona, job, ranked_sections, ranked_subsections, languages) ==
  LET extracted_sections ==
        [i \in 1..Len(ranked_sections) |-> ExtractedSection(ranked_sections[i], i)]
      subsection_analysis ==
        [i \in 1..Len(ranked_subsections) |-> SubsectionAnalysis(ranked_subsections[i])]
  IN [metadata |->
        [input_documents |-> pdf_files,
         persona |-> persona,
         job_to_be_done |-> job,
         total_sections_found |-> Len(extracted_sections),
         total_subsections_found |-> Len(subsection_analysis),
         algorithm_version |-> "3.0_multilingual",
         detected_languages |-> languages,
         multilingual_support |-> TRUE],
      extracted_sections |-> extracted_sections,
      subsection_analysis |-> subsection_analysis]

_create_empty_result(persona, job, error_msg) ==
  [metadata |->
     [input_documents |-> <<>>,
      persona |-> persona,
      job_to_be_done |-> job,
      total_sections_found |-> 0,
      total_subsections_found |-> 0,
      processing_time_seconds |-> 0,
      error |-> error_msg,
      algorithm_version |-> "3.0_multilingual"],
   extracted_sections |-> <<>>,
   subsection_analysis |-> <<>>]

---------------------------------------------------------------------------
(* The input directory: a library of files, listed in this order.          *)

Span(text, size, flags, y) ==
  [text |-> text, size |-> size, flags |-> flags, font |-> "Helvetica",
   bbox |-> <<72, y, 540, y + 12>>]

\* a text block of one line with one span
TextLine(text, size, flags, y) == [lines |-> << <<Span(text, size, flags, y)>> >>]

ImageBlock == [image |-> "png", bbox |-> <<72, 400, 540, 600>>]

\* A research paper page: two headings (the title line of the first is split
\* into spans), four body lines of 73 to 81 characters, and an image.
PaperPage ==
  [corrupt |-> FALSE,
   blocks |->
     << [lines |-> << <<Span(TxtNumber, 1404, 20, 50), Span(TxtBlank, 1404, 20, 50),
                        Span(TxtMethodologyTitle, 1404, 20, 50)>> >>],
        TextLine(TxtLiterature, 1100, 4, 100),
        TextLine(TxtExperiment, 1100, 4, 150),
        ImageBlock,
        TextLine(TxtResultsTitle, 1100, 4, 200),
        TextLine(TxtFindings, 1100, 4, 250),
        TextLine(TxtGap, 1100, 4, 300) >>]

\* Page 1 of the mixed document: a page number, a 15-character line and a
\* 129-character line above the heading, two body lines below it, a heading
\* at the foot of the page.
MixedPage1 ==
  [corrupt |-> FALSE,
   blocks |->
     << TextLine(TxtPageNo, 900, 4, 10),
        TextLine(TxtShortAdmitted, 1100, 4, 20),
        TextLine(TxtBoundary, 1100, 4, 30),
        TextLine(TxtIntroTitle, 1400, 20, 50),
        TextLine(TxtPlain, 1100, 4, 100),
        TextLine(TxtSystem, 1100, 4, 150),
        TextLine(TxtReferences, 1100, 4, 750) >>]

\* Page 2 (the last): one body line, then a heading with nothing below it.
MixedPage2 ==
  [corrupt |-> FALSE,
   blocks |->
     << TextLine(TxtCitation, 1100, 4, 100),
        TextLine(TxtConclusionTitle, 1100, 4, 700) >>]

CorruptPage == [corrupt |-> TRUE, blocks |-> <<>>]

FileLibrary ==
  << [name |-> NamePaper,  opens |-> TRUE, pages |-> <<PaperPage>>],
     [name |-> NameBroken, opens |-> TRUE, pages |-> <<PaperPage, CorruptPage>>],
     [name |-> NameSurvey, opens |-> TRUE, pages |-> <<PaperPage>>],
     [name |-> NameMixed,  opens |-> TRUE, pages |-> <<MixedPage1, MixedPage2>>],
     [name |-> NameBackup, opens |-> FALSE, pages |-> <<>>] >>

\* os.listdir: the names of the files the directory holds, a run of at most
\* MaxFiles consecutive files of the library
Listing(first, count) == [i \in 1..count |-> FileLibrary[first + i - 1].name]

Listings ==
  {Listing(run[1], run[2]) :
     run \in {r \in (DOMAIN FileLibrary) \X (0..MaxFiles) :
               r[1] + r[2] - 1 <= Len(FileLibrary)}}

\* '.pdf' in f.lower(): the suffix looked for anywhere in the name
IsPdfAnywhere(name) == Contains(PdfSuffix, lower(name))

\* f.lower().endswith('.pdf')
IsPdf(name) == EndsWith(lower(name), PdfSuffix)

Personas == {"researcher"}

Jobs == {"literature_review"}

\* sentence_model: None, one whose encode raises, one returning similarity 0.4
SentenceModels == {NoModel, RaisingModel, ModelReturning(1), ModelReturning(4000)}

\* langdetect installed and answering "en"; neither detector installed
Detectors ==
  {[langdetect |-> "en", langid |-> "unavailable"],
   [langdetect |-> "unavailable", langid |-> "unavailable"]}

\* seconds the clock advances in one step: it reads the limit exactly, then more
TickStep == TimeLimit

---------------------------------------------------------------------------
(* State                                                                   *)

VARIABLES
  docs_kind,           \* docs_path: "missing", "file" (not a directory) or "dir"
  listing,             \* os.listdir(docs_path)
  persona, job,        \* arguments of process_documents_multilingual
  sentence_model,      \* self.sentence_model
  det,                 \* what the installed language detectors answer
  now,                 \* time.time()
  pc,                  \* position in process_documents_multilingual
  pdf_files,           \* names of the listed files with a .pdf suffix
  doc_i,               \* index of the current pdf_file
  content,             \* extracted content of the current document
  page_i, item_i,      \* current page (of the extraction, then of the section
                       \* analysis), current heading or body block
  sections,            \* relevant_sections of the current document
  sec_i,               \* current section of create_subsection_analysis_advanced
  subsections,         \* subsections of the current document
  all_sections, all_subsections,
  detected_languages,
  result,              \* the returned dict, <<>> before the return
  stderr,              \* kinds of messages printed to sys.stderr
  call                 \* a direct call of one function: arguments and value

inputs == <<docs_kind, listing, persona, job, sentence_model, det>>

position == <<pdf_files, doc_i, content, page_i, item_i, sec_i>>

collected == <<sections, subsections, all_sections, all_subsections, detected_languages>>

vars == <<inputs, now, pc, position, collected, result, stderr, call>>

NoCall == [fn |-> "none"]

TimeLimitMsg == "Time limit exceeded"

ExtractErrorMsg == "Error extracting content"

SimilarityWarning == "Warning: Multilingual similarity calculation failed"

ProcessingErrorMsg == "Error processing documents"

\* the state of a processor that has been constructed and not yet called
Constructed ==
  /\ now = start_time
  /\ pdf_files = <<>> /\ doc_i = 0
  /\ content = EmptyContent
  /\ page_i = 0 /\ item_i = 0 /\ sec_i = 0
  /\ sections = <<>> /\ subsections = <<>>
  /\ all_sections = <<>> /\ all_subsections = <<>>
  /\ detected_languages = {}
  /\ result = <<>>
  /\ stderr = {}

Init ==
  /\ docs_kind \in {"missing", "file", "dir"}
  /\ listing \in (IF docs_kind = "dir" THEN Listings ELSE {<<>>})
  /\ persona \in Personas
  /\ job \in Jobs
  /\ sentence_model \in SentenceModels
  /\ det \in Detectors
  /\ pc = "start"
  /\ Constructed
  /\ call = NoCall

---------------------------------------------------------------------------
(* process_documents_multilingual                                          *)

Score(text) ==
  calculate_semantic_relevance_multilingual(text, persona, job, det, sentence_model)

\* the warning printed when encode raises inside a scoring call
ScoreLog(text) ==
  IF sentence_model.kind = "raise" /\ ~NotScored(text)
  THEN {SimilarityWarning} ELSE {}

\* an except clause that returns what was collected along with the error
CaughtKeepingPartial(error_msg) ==
  /\ result' = [_create_empty_result(persona, job, error_msg) EXCEPT
                  !.extracted_sections =
                    [i \in 1..Len(all_sections \o sections) |->
                       ExtractedSection((all_sections \o sections)[i], i)]]
  /\ stderr' = stderr \cup {ProcessingErrorMsg}
  /\ pc' = "done"

\* the except clause of process_documents_multilingual
Caught(error_msg) ==
  /\ result' = _create_empty_result(persona, job, error_msg)
  /\ stderr' = stderr \cup {ProcessingErrorMsg}
  /\ pc' = "done"

\* lines 181-194: validation of docs_path and the list of PDF files
ValidateInput ==
  /\ pc = "start"
  /\ IF docs_kind = "missing"
     THEN Caught("Input directory not found") /\ UNCHANGED <<position, collected>>
     ELSE IF docs_kind = "file"
     THEN Caught("Not a directory") /\ UNCHANGED <<position, collected>>
     ELSE LET pdfs == SelectSeq(listing, IsPdf)
          IN IF pdfs = <<>>
             THEN /\ result' = _create_empty_result(persona, job, "No PDF files found")
                  /\ pc' = "done"
                  /\ UNCHANGED <<position, collected, stderr>>
             ELSE /\ pdf_files' = pdfs
                  /\ doc_i' = 1
                  /\ all_sections' = <<>> /\ all_subsections' = <<>>
                  /\ detected_languages' = {}
                  /\ pc' = "documents"
                  /\ UNCHANGED <<content, page_i, item_i, sec_i, sections, subsections,
                                 result, stderr>>
  /\ UNCHANGED <<inputs, now, call>>

\* the file of that name on disk
RawFile(name) ==
  FileLibrary[CHOOSE i \in DOMAIN FileLibrary : FileLibrary[i].name = name]

\* lines 196-199: the head of one iteration of `for pdf_file in pdf_files`,
\* up to the call of extract_document_content_multilingual
NextDocument ==
  /\ pc = "documents"
  /\ IF doc_i > Len(pdf_files)
     THEN pc' = "rank" /\ UNCHANGED <<position, collected, stderr>>
     ELSE IF ~check_time_limit(now)
     THEN /\ stderr' = stderr \cup {TimeLimitMsg}
          /\ pc' = "rank"
          /\ UNCHANGED <<position, collected>>
     ELSE /\ page_i' = 1
          /\ pc' = "extract"
          /\ UNCHANGED <<pdf_files, doc_i, content, item_i, sec_i, collected, stderr>>
  /\ UNCHANGED <<inputs, now, result, call>>

\* document_extractor.py lines 24-96 and persona_processor.py lines 204-211:
\* fitz.open and one iteration of `for page_num in range(len(doc))`, which
\* reads no clock, or the return of the extraction: the content, or the empty
\* content when fitz.open or a page has raised
ExtractPage ==
  /\ pc = "extract"
  /\ LET raw == RawFile(pdf_files[doc_i])
     IN IF raw.opens /\ page_i <= Len(raw.pages) /\ ~raw.pages[page_i].corrupt
        THEN /\ page_i' = page_i + 1
             /\ pc' = "extract"
             /\ UNCHANGED <<pdf_files, doc_i, content, item_i, sec_i, collected, stderr>>
        ELSE LET extracted == extract_document_content_multilingual(raw, det)
                 tagged == [extracted EXCEPT
                              !.metadata = Update(@, [filename |-> pdf_files[doc_i]])]
             IN /\ content' = tagged
                /\ stderr' = IF ExtractionFails(raw) THEN stderr \cup {ExtractErrorMsg}
                             ELSE stderr
                /\ detected_languages' =
                     detected_languages
                       \cup GetDefault(tagged.metadata, "detected_languages", {})
                /\ sections' = <<>>
                /\ page_i' = 1 /\ item_i' = 1
                /\ pc' = "headings"
                /\ UNCHANGED <<pdf_files, doc_i, sec_i, subsections, all_sections,
                               all_subsections>>
  /\ UNCHANGED <<inputs, now, result, call>>

CurrentPage == content.pages[page_i]

\* lines 57-87: one iteration of `for heading in page_content['headings']`,
\* or the end of extract_relevant_sections_multilingual after the last page
NextHeading ==
  /\ pc = "headings"
  /\ IF page_i > Len(content.pages)
     THEN \* return relevant_sections; all_sections.extend(sections)
          /\ all_sections' = all_sections \o sections
          /\ subsections' = <<>>
          /\ sec_i' = 1
          /\ pc' = "subsections"
          /\ UNCHANGED <<pdf_files, doc_i, content, page_i, item_i, sections,
                         all_subsections, detected_languages, stderr>>
     ELSE IF item_i > Len(CurrentPage.headings)
     THEN /\ item_i' = 1 /\ pc' = "body"
          /\ UNCHANGED <<pdf_files, doc_i, content, page_i, sec_i, collected, stderr>>
     ELSE IF ~check_time_limit(now)
     THEN /\ stderr' = stderr \cup {TimeLimitMsg}
          /\ item_i' = 1 /\ pc' = "body"
          /\ UNCHANGED <<pdf_files, doc_i, content, page_i, sec_i, collected>>
     ELSE LET heading == CurrentPage.headings[item_i]
              associated_content ==
                _find_associated_content(heading, CurrentPage.body_text, content.pages,
                                         CurrentPage.page_number)
              relevance_score ==
                HeadingScore(content, CurrentPage, heading, persona, job, det, sentence_model)
          IN /\ sections' =
                  IF AdmitsHeading(relevance_score)
                  THEN Append(sections,
                              HeadingSection(content, CurrentPage, heading, relevance_score))
                  ELSE sections
             /\ stderr' = stderr \cup ScoreLog(heading.text \o <<" ">> \o associated_content)
             /\ item_i' = item_i + 1
             /\ pc' = "headings"
             /\ UNCHANGED <<pdf_files, doc_i, content, page_i, sec_i, subsections,
                            all_sections, all_subsections, detected_languages>>
  /\ UNCHANGED <<inputs, now, result, call>>

\* lines 89-109: one iteration of `for text_block in page_content['body_text']`
NextBodyBlock ==
  /\ pc = "body"
  /\ IF item_i > Len(CurrentPage.body_text)
     THEN /\ page_i' = page_i + 1 /\ item_i' = 1 /\ pc' = "headings"
          /\ UNCHANGED <<pdf_files, doc_i, content, sec_i, collected, stderr>>
     ELSE IF ~check_time_limit(now)
     THEN /\ stderr' = stderr \cup {TimeLimitMsg}
          /\ page_i' = page_i + 1 /\ item_i' = 1 /\ pc' = "headings"
          /\ UNCHANGED <<pdf_files, doc_i, content, sec_i, collected>>
     ELSE LET text_block == CurrentPage.body_text[item_i]
              relevance_score == Score(text_block.text)
          IN /\ sections' =
                  IF AdmitsBody(relevance_score)
                  THEN Append(sections,
                              BodySection(content, CurrentPage, text_block, relevance_score))
                  ELSE sections
             /\ stderr' = stderr \cup ScoreLog(text_block.text)
             /\ item_i' = item_i + 1
             /\ pc' = "body"
             /\ UNCHANGED <<pdf_files, doc_i, content, page_i, sec_i, subsections,
                            all_sections, all_subsections, detected_languages>>
  /\ UNCHANGED <<inputs, now, result, call>>

\* NextSubsection without the check_time_limit of its loop
NextSubsectionUnchecked ==
  /\ pc = "subsections"
  /\ IF sec_i > Len(sections)
     THEN /\ all_subsections' = all_subsections \o subsections
          /\ doc_i' = doc_i + 1
          /\ pc' = "documents"
          /\ UNCHANGED <<pdf_files, content, page_i, item_i, sec_i, sections, subsections,
                         all_sections, detected_languages, stderr>>
     ELSE LET section == sections[sec_i]
              refined_text ==
                refine_content_for_persona(section.content, persona, job, det, sentence_model)
          IN /\ subsections' =
                  IF ~TooShortForSubsection(section) /\ Len(refined_text) > 0
                  THEN Append(subsections, SubsectionOf(section, refined_text, persona, job))
                  ELSE subsections
             /\ stderr' = IF TooShortForSubsection(section) THEN stderr
                          ELSE stderr \cup ScoreLog(section.content)
             /\ sec_i' = sec_i + 1
             /\ pc' = "subsections"
             /\ UNCHANGED <<pdf_files, doc_i, content, page_i, item_i, sections,
                            all_sections, all_subsections, detected_languages>>
  /\ UNCHANGED <<inputs, now, result, call>>

\* lines 113-140 and 215-216: one iteration of `for section in sections`, or the
\* return of create_subsection_analysis_advanced and the end of the document
NextSubsection ==
  /\ pc = "subsections"
  /\ IF sec_i > Len(sections) \/ ~check_time_limit(now)
     THEN /\ stderr' = IF sec_i > Len(sections) THEN stderr ELSE stderr \cup {TimeLimitMsg}
          /\ all_subsections' = all_subsections \o subsections
          /\ doc_i' = doc_i + 1
          /\ pc' = "documents"
          /\ UNCHANGED <<pdf_files, content, page_i, item_i, sec_i, sections, subsections,
                         all_sections, detected_languages>>
     ELSE LET section == sections[sec_i]
              refined_text ==
                refine_content_for_persona(section.content, persona, job, det, sentence_model)
          IN /\ subsections' =
                  IF ~TooShortForSubsection(section) /\ Len(refined_text) > 0
                  THEN Append(subsections, SubsectionOf(section, refined_text, persona, job))
                  ELSE subsections
             /\ stderr' = IF TooShortForSubsection(section) THEN stderr
                          ELSE stderr \cup ScoreLog(section.content)
             /\ sec_i' = sec_i + 1
             /\ pc' = "subsections"
             /\ UNCHANGED <<pdf_files, doc_i, content, page_i, item_i, sections,
                            all_sections, all_subsections, detected_languages>>
  /\ UNCHANGED <<inputs, now, result, call>>

\* lines 218-274: ranking, output format and the return
RankAndReturn ==
  /\ pc = "rank"
  /\ LET ranked == rank_and_filter_results_advanced(all_sections, all_subsections)
     IN result' = SuccessResult(pdf_files, persona, job, ranked[1], ranked[2],
                                detected_languages)
  /\ pc' = "done"
  /\ UNCHANGED <<inputs, now, position, collected, stderr, call>>

\* the text the next step hands to sent_tokenize, if it hands one
Tokenizes ==
  \/ /\ pc = "headings"
     /\ page_i <= Len(content.pages) /\ item_i <= Len(CurrentPage.headings)
     /\ check_time_limit(now)
     /\ LET heading == CurrentPage.headings[item_i]
            associated_content ==
              _find_associated_content(heading, CurrentPage.body_text, content.pages,
                                       CurrentPage.page_number)
        IN ~NotScored(heading.text \o <<" ">> \o associated_content)
  \/ /\ pc = "body"
     /\ item_i <= Len(CurrentPage.body_text)
     /\ check_time_limit(now)
     /\ ~NotScored(CurrentPage.body_text[item_i].text)
  \/ /\ pc = "subsections"
     /\ sec_i <= Len(sections)
     /\ check_time_limit(now)
     /\ ~TooShortForSubsection(sections[sec_i])

\* lines 276-278: sent_tokenize raises (the punkt data cannot be loaded) inside
\* a scoring or refinement call; the exception reaches the except clause
TokenizerRaises ==
  /\ Tokenizes
  /\ Caught("Resource punkt not found")
  /\ UNCHANGED <<inputs, now, position, collected, call>>

\* time passes: time.time() grows between two reads (the system clock is not
\* set back during a run)
Tick ==
  /\ pc \notin {"done", "idle"}
  /\ now + TickStep <= MaxTime
  /\ now' = now + TickStep
  /\ UNCHANGED <<inputs, pc, position, collected, result, stderr, call>>

Next ==
  \/ ValidateInput
  \/ NextDocument
  \/ ExtractPage
  \/ NextHeading
  \/ NextBodyBlock
  \/ NextSubsection
  \/ RankAndReturn
  \/ TokenizerRaises
  \/ Tick

Spec == Init /\ [][Next]_vars

---------------------------------------------------------------------------
(* Direct calls of calculate_semantic_relevance_multilingual: the analyzer *)
(* holds sentence_model, the detectors answer det, and the call passes     *)
(* call.text with persona and job.                                         *)

\* 1. Introduction, with the two body lines below it
TxtIntroCombined == TxtIntroTitle \o <<" ">> \o TxtPlain \o <<" ">> \o TxtSystem

ScoreTexts ==
  {None, <<>>, TxtBlank, TxtPadded, TxtPageNo, TxtSystem, TxtShortAdmitted, TxtPlain,
   TxtBoundary, TxtMethodology, TxtIntroCombined}

ScorePersonas == {"researcher", "student", "developer", "chef"}

ScoreJobs == {"literature_review", "exam_preparation", "gardening"}

\* langdetect answers "en"; it answers "es"; nothing is installed
ScoreDetectors ==
  {[langdetect |-> "en", langid |-> "unavailable"],
   [langdetect |-> "es", langid |-> "unavailable"],
   [langdetect |-> "unavailable", langid |-> "unavailable"]}

\* no model, a raising model, cosine similarity -1, 0.4 and 1
ScoreModels ==
  {NoModel, RaisingModel, ModelReturning(0 - ScoreScale), ModelReturning(4000),
   ModelReturning(ScoreScale)}

\* a call that has not returned yet
ScoreCall(text) ==
  [fn |-> "score", text |-> text, outcome |-> "called", value |-> 0, invoked |-> {}]

\* the pipeline is not running
Idle ==
  /\ docs_kind = "missing" /\ listing = <<>>
  /\ pc = "idle"
  /\ Constructed

InitScore ==
  /\ persona \in ScorePersonas
  /\ job \in ScoreJobs
  /\ sentence_model \in ScoreModels
  /\ det \in ScoreDetectors
  /\ call \in {ScoreCall(text) : text \in ScoreTexts}
  /\ Idle

\* the call returns its value
ScoreReturns ==
  /\ call.fn = "score" /\ call.outcome = "called"
  /\ call' = [call EXCEPT !.outcome = "returned",
                           !.value = Score(call.text),
                           !.invoked = ScoreInvokes(call.text, sentence_model)]
  /\ stderr' = stderr \cup ScoreLog(call.text)
  /\ UNCHANGED <<inputs, now, pc, position, collected, result>>

\* sent_tokenize raises inside _calculate_quality_score: the call raises
ScoreRaises ==
  /\ call.fn = "score" /\ call.outcome = "called"
  /\ ~NotScored(call.text)
  /\ call' = [call EXCEPT !.outcome = "raised",
                           !.invoked = {"detect_language", "sent_tokenize"}
                                         \cup (IF sentence_model.kind = "none" THEN {}
                                               ELSE {"encode"})]
  /\ UNCHANGED <<inputs, now, pc, position, collected, result, stderr>>

NextScore ==
  \/ ScoreReturns
  \/ ScoreRaises

SpecScore == InitScore /\ [][NextScore]_vars

---------------------------------------------------------------------------
(* Direct calls of refine_content_for_persona.                             *)

\* the four body lines of the paper page and the 129-character line: five
\* sentences, 471 characters
TxtPaperBody ==
  TxtLiterature \o <<" ">> \o TxtExperiment \o <<" ">> \o TxtFindings \o <<" ">>
    \o TxtGap \o <<" ">> \o TxtBoundary

\* a sentence that scores high followed by one that scores low
TxtTwoSentences == TxtMethodology \o <<" ">> \o TxtPlain

RefineContents ==
  {TxtBlank, TxtSystem, TxtPlain, TxtTwoSentences, TxtPaperBody}

RefinePersonas == {"researcher", "student", "chef"}

RefineJobs == {"literature_review", "gardening"}

\* a call that has not returned yet
RefineCall(text) ==
  [fn |-> "refine", content |-> text, outcome |-> "called", value |-> <<>>]

InitRefine ==
  /\ persona \in RefinePersonas
  /\ job \in RefineJobs
  /\ sentence_model \in ScoreModels
  /\ det \in ScoreDetectors
  /\ call \in {RefineCall(text) : text \in RefineContents}
  /\ Idle

\* the call returns its value
RefineReturns ==
  /\ call.fn = "refine" /\ call.outcome = "called"
  /\ call' = [call EXCEPT
                !.outcome = "returned",
                !.value = refine_content_for_persona(call.content, persona, job, det,
                                                     sentence_model)]
  /\ stderr' = stderr \cup UNION {ScoreLog(sentence) : sentence \in
                                    {sent_tokenize(call.content)[i] :
                                       i \in DOMAIN sent_tokenize(call.content)}}
  /\ UNCHANGED <<inputs, now, pc, position, collected, result>>

\* sent_tokenize raises: the call raises
RefineRaises ==
  /\ call.fn = "refine" /\ call.outcome = "called"
  /\ call' = [call EXCEPT !.outcome = "raised"]
  /\ UNCHANGED <<inputs, now, pc, position, collected, result, stderr>>

NextRefine ==
  \/ RefineReturns
  \/ RefineRaises

SpecRefine == InitRefine /\ [][NextRefine]_vars

---------------------------------------------------------------------------
(* Direct calls of detect_language.                                        *)

DetectTexts ==
  {<<>>, TxtBlank, TxtPadded, TxtPageNo, TxtSpaced, TxtNineTrimmed, TxtReferences,
   TxtSystem, TxtShortAdmitted, TxtPlain, TxtMethodology}

\* what detect(text) and langid.classify(text) can do
DetectOutcomes == {"en", "es", "raise", "unavailable"}

AllDetectors == [langdetect : DetectOutcomes, langid : DetectOutcomes]

\* a call that has not returned yet
DetectCall(text) ==
  [fn |-> "detect", text |-> text, outcome |-> "called", value |-> "", invoked |-> <<>>]

InitDetect ==
  /\ persona = "researcher"
  /\ job = "literature_review"
  /\ sentence_model = NoModel
  /\ det \in AllDetectors
  /\ call \in {DetectCall(text) : text \in DetectTexts}
  /\ Idle

\* the call returns its value: every exception of a strategy is caught
DetectReturns ==
  /\ call.fn = "detect" /\ call.outcome = "called"
  /\ call' = [call EXCEPT !.outcome = "returned",
                           !.value = detect_language(call.text, det),
                           !.invoked = DetectInvokes(call.text, det)]
  /\ UNCHANGED <<inputs, now, pc, position, collected, result, stderr>>

NextDetect == DetectReturns

SpecDetect == InitDetect /\ [][NextDetect]_vars

---------------------------------------------------------------------------
(* Direct calls of get_keywords_for_language.                              *)

KeywordPersonas == {"researcher", "student", "analyst", "chef"}

KeywordJobs == {"literature_review", "exam_preparation", "gardening"}

KeywordLanguages == {LanguageOrder[i] : i \in DOMAIN LanguageOrder}

\* a call that has not returned yet
KeywordsCall(language) ==
  [fn |-> "keywords", language |-> language, outcome |-> "called", value |-> EmptyDict]

InitKeywords ==
  /\ persona \in KeywordPersonas
  /\ job \in KeywordJobs
  /\ sentence_model = NoModel
  /\ det \in {[langdetect |-> "unavailable", langid |-> "unavailable"]}
  /\ call \in {KeywordsCall(language) : language \in KeywordLanguages}
  /\ Idle

\* the call returns its value
KeywordsReturns ==
  /\ call.fn = "keywords" /\ call.outcome = "called"
  /\ call' = [call EXCEPT
                !.outcome = "returned",
                !.value = get_keywords_for_language(persona, job, call.language)]
  /\ UNCHANGED <<inputs, now, pc, position, collected, result, stderr>>

NextKeywords == KeywordsReturns

SpecKeywords == InitKeywords /\ [][NextKeywords]_vars

---------------------------------------------------------------------------
(* Direct calls of rank_and_filter_results_advanced, and of it again on    *)
(* its own output.  The caller builds the two argument lists first.        *)

\* a str of n characters
Filler(n) == [i \in 1..n |-> "x"]

\* The lists are built from items numbered by `page`, so that every item of
\* a list differs from every other.
RankSection(id, points, length) ==
  [document |-> NamePaper,
   page |-> id,
   section_title |-> ContentFromPage(id),
   content |-> Filler(length),
   relevance_score |-> points * ScoreScale,
   font_size |-> 1100,
   is_bold |-> FALSE,
   language |-> "en"]

RankSubsection(id, points, length) ==
  [document |-> NamePaper,
   page |-> id,
   section_title |-> ContentFromPage(id),
   refined_text |-> Filler(length),
   relevance_score |-> points * ScoreScale,
   persona_focus |-> <<>>,
   job_alignment |-> "General content"]

\* scores 30, 40, 20, 30, 40, 20, ...: unsorted, with ties
PresetPoints(i) == 20 + 10 * (i % 3)

\* ten sections that pass the length filter, of length 50 and (the third) 2000
PresetSections ==
  [i \in 1..10 |-> RankSection(i, PresetPoints(i), IF i = 3 THEN 2000 ELSE 50)]

\* fifteen subsections that pass, of length 30 and (the third) 1000
PresetSubsections ==
  [i \in 1..15 |-> RankSubsection(i, PresetPoints(i), IF i = 3 THEN 1000 ELSE 30)]

AddedPoints == {30, 45}

AddedSectionLengths == {49, 50, 2001}

AddedSubsectionLengths == {29, 30, 1001}

InitRank ==
  /\ persona = "researcher" /\ job = "literature_review"
  /\ sentence_model = NoModel
  /\ det = [langdetect |-> "en", langid |-> "unavailable"]
  /\ \E preset \in BOOLEAN :
       call = [fn |-> "rank",
               sections |-> IF preset THEN PresetSections ELSE <<>>,
               subsections |-> IF preset THEN PresetSubsections ELSE <<>>,
               added |-> 0,
               stage |-> "input",
               out |-> << <<>>, <<>> >>,
               again |-> << <<>>, <<>> >>]
  /\ Idle

\* the caller appends one more section to the argument
AddSection ==
  /\ call.fn = "rank" /\ call.stage = "input" /\ call.added < MaxExtra
  /\ \E points \in AddedPoints, length \in AddedSectionLengths :
       call' = [call EXCEPT
                  !.sections = Append(@, RankSection(Len(@) + 1, points, length)),
                  !.added = @ + 1]
  /\ UNCHANGED <<inputs, now, pc, position, collected, result, stderr>>

\* the caller appends one more subsection to the argument
AddSubsection ==
  /\ call.fn = "rank" /\ call.stage = "input" /\ call.added < MaxExtra
  /\ \E points \in AddedPoints, length \in AddedSubsectionLengths :
       call' = [call EXCEPT
                  !.subsections = Append(@, RankSubsection(Len(@) + 1, points, length)),
                  !.added = @ + 1]
  /\ UNCHANGED <<inputs, now, pc, position, collected, result, stderr>>

\* ranked = rank_and_filter_results_advanced(sections, subsections)
CallRank ==
  /\ call.fn = "rank" /\ call.stage = "input"
  /\ call' = [call EXCEPT
                !.out = rank_and_filter_results_advanced(call.sections, call.subsections),
                !.stage = "ranked"]
  /\ UNCHANGED <<inputs, now, pc, position, collected, result, stderr>>

\* again = rank_and_filter_results_advanced(*ranked)
CallRankAgain ==
  /\ call.fn = "rank" /\ call.stage = "ranked"
  /\ call' = [call EXCEPT
                !.again = rank_and_filter_results_advanced(call.out[1], call.out[2]),
                !.stage = "again"]
  /\ UNCHANGED <<inputs, now, pc, position, collected, result, stderr>>

NextRank ==
  \/ AddSection
  \/ AddSubsection
  \/ CallRank
  \/ CallRankAgain

SpecRank == InitRank /\ [][NextRank]_vars

---------------------------------------------------------------------------
(* Direct calls of _is_heading_advanced.                                   *)

\* "References" followed by 190 and by 191 characters: 200 and 201 characters
TxtLongest == TxtReferences \o Filler(190)

TxtTooLong == TxtReferences \o Filler(191)

HeadingTexts ==
  {TxtNumber, TxtAbc, TxtAllCaps, TxtIntroTitle, TxtSubNumbered, TxtChapter,
   TxtSectionNo, TxtReferences, TxtMethodology, TxtPlain, TxtSystem, TxtPageNo,
   TxtLongest, TxtTooLong}

\* font sizes in 1/100 pt: under, at and over 12 pt
HeadingSizes == {1100, 1200, 1210}

\* a call that has not returned yet
HeadingCall(text, size, bold) ==
  [fn |-> "heading",
   block |-> [text |-> text, font_size |-> size, is_bold |-> bold],
   outcome |-> "called", value |-> FALSE]

InitHeading ==
  /\ persona = "researcher"
  /\ job = "literature_review"
  /\ sentence_model = NoModel
  /\ det \in {[langdetect |-> "unavailable", langid |-> "unavailable"]}
  /\ call \in {HeadingCall(text, size, bold) :
                 text \in HeadingTexts, size \in HeadingSizes, bold \in BOOLEAN}
  /\ Idle

\* the call returns its value
HeadingReturns ==
  /\ call.fn = "heading" /\ call.outcome = "called"
  /\ call' = [call EXCEPT !.outcome = "returned",
                           !.value = _is_heading_advanced(call.block)]
  /\ UNCHANGED <<inputs, now, pc, position, collected, result, stderr>>

NextHeadingCall == HeadingReturns

SpecHeading == InitHeading /\ [][NextHeadingCall]_vars

---------------------------------------------------------------------------
(* Properties                                                              *)

\* the result metadata has no error entry
IsSuccess(r) == "error" \notin DOMAIN r.metadata

\* an error entry, both lists empty, both totals 0
IsEmpty(r) ==
  /\ "error" \in DOMAIN r.metadata
  /\ r.extracted_sections = <<>>
  /\ r.subsection_analysis = <<>>
  /\ r.metadata.total_sections_found = 0
  /\ r.metadata.total_subsections_found = 0

\* a check_time_limit call has seen more than 300 seconds elapsed
Breached == TimeLimitMsg \in stderr

\* every Section appended so far in this run
SectionsSoFar ==
  all_sections \o (IF pc \in {"headings", "body"} THEN sections ELSE <<>>)

\* every Subsection appended so far in this run
SubsectionsSoFar ==
  all_subsections \o (IF pc = "subsections" THEN subsections ELSE <<>>)

\* C1: for every text, persona and job, with no sentence model, a raising one
\* or one returning any cosine similarity from -1 to 1, the value returned by
\* calculate_semantic_relevance_multilingual is at least 0 and at most 100.
ScoreInRange ==
  (call.fn = "score" /\ call.outcome = "returned")
    => (0 <= call.value /\ call.value <= 100 * ScoreScale)

\* A call with cosine similarity -1 on a text long enough to be scored whose
\* components sum to less than 0 has returned 0.
ScoreInRangeWitness ==
  /\ call.fn = "score" /\ call.outcome = "returned"
  /\ sentence_model = ModelReturning(0 - ScoreScale)
  /\ ~NotScored(call.text)
  /\ call.value = 0

\* C2: a finished run has returned a result of one of two shapes, Success (no
\* error entry, totals equal to the list lengths) or Empty (an error entry,
\* both lists empty, both totals 0): an error entry never comes with a
\* non-empty list, and nothing is returned before the run has finished.
ResultShape ==
  /\ (pc = "done") <=> (result # <<>>)
  /\ pc = "done" =>
       /\ DOMAIN result = {"metadata", "extracted_sections", "subsection_analysis"}
       /\ IF IsSuccess(result)
          THEN /\ result.metadata.total_sections_found = Len(result.extracted_sections)
               /\ result.metadata.total_subsections_found = Len(result.subsection_analysis)
          ELSE IsEmpty(result)

\* A run that failed in its second or a later document, after Sections had
\* been collected, has returned the Empty result.
ResultShapeWitness ==
  /\ pc = "done"
  /\ IsEmpty(result)
  /\ doc_i >= 2
  /\ Len(all_sections) > 0

\* C3: from the step after a check_time_limit call has seen the limit exceeded,
\* no step appends a Section or a Subsection, none collected before is dropped,
\* and the step that returns hands exactly these to ranking and returns a
\* Success result.
BudgetBreachKeepsPartial ==
  [][Breached =>
       /\ SectionsSoFar' = SectionsSoFar
       /\ SubsectionsSoFar' = SubsectionsSoFar
       /\ (pc # "done" /\ pc' = "done") =>
            /\ IsSuccess(result')
            /\ LET ranked == rank_and_filter_results_advanced(SectionsSoFar, SubsectionsSoFar)
               IN /\ Len(result'.extracted_sections) = Len(ranked[1])
                  /\ \A i \in 1..Len(ranked[1]) :
                       /\ result'.extracted_sections[i].document = ranked[1][i].document
                       /\ result'.extracted_sections[i].section_title = ranked[1][i].section_title
                       /\ result'.extracted_sections[i].relevance_score
                            = ranked[1][i].relevance_score
                  /\ Len(result'.subsection_analysis) = Len(ranked[2])
                  /\ \A i \in 1..Len(ranked[2]) :
                       result'.subsection_analysis[i].refined_text = ranked[2][i].refined_text]_vars

\* A run whose budget ran out before its last document has returned a Success
\* result holding Sections collected before the breach.
BudgetBreachWitness ==
  /\ pc = "done"
  /\ Breached
  /\ doc_i <= Len(pdf_files)
  /\ Len(all_sections) > 0
  /\ IsSuccess(result)
  /\ Len(result.extracted_sections) > 0

\* the name ends in .pdf, in any mix of cases
HasPdfSuffix(name) ==
  LET n == Len(name)
  IN /\ n >= 4
     /\ name[n - 3] = "."
     /\ name[n - 2] \in {"p", "P"}
     /\ name[n - 1] \in {"d", "D"}
     /\ name[n] \in {"f", "F"}

NoPdfInput ==
  \/ docs_kind = "missing"
  \/ docs_kind = "dir" /\ \A i \in DOMAIN listing : ~HasPdfSuffix(listing[i])

\* C4: when the input directory does not exist, or holds no file whose name
\* ends in .pdf (in any case), the run extracts nothing, scores nothing and
\* returns the Empty result with a non-empty error message.
NoPdfGivesEmpty ==
  (pc = "done" /\ NoPdfInput) =>
    /\ IsEmpty(result)
    /\ result.metadata.error # ""
    /\ doc_i = 0 /\ content = EmptyContent
    /\ all_sections = <<>> /\ all_subsections = <<>>
    /\ stderr \cap {ExtractErrorMsg, SimilarityWarning} = {}

\* A run on a directory that holds a file, none with a .pdf suffix, has returned.
NoPdfGivesEmptyWitness ==
  /\ pc = "done"
  /\ docs_kind = "dir" /\ listing # <<>>
  /\ NoPdfInput

\* the file of that name cannot be opened or has a page that cannot be read
Unreadable(name) ==
  \E i \in DOMAIN FileLibrary :
    /\ FileLibrary[i].name = name
    /\ \/ ~FileLibrary[i].opens
       \/ \E p \in DOMAIN FileLibrary[i].pages : FileLibrary[i].pages[p].corrupt

RECURSIVE Flatten(_)
Flatten(lists) ==
  IF Len(lists) = 0 THEN <<>> ELSE Head(lists) \o Flatten(Tail(lists))

\* the Sections of one page: the headings whose score with their associated
\* content is above 15, then the body blocks whose score is above 20
SectionsOfPage(doc, page) ==
  LET heading_score(h) == HeadingScore(doc, page, h, persona, job, det, sentence_model)
      headings == SelectSeq(page.headings, LAMBDA h : heading_score(h) > 15 * ScoreScale)
      blocks == SelectSeq(page.body_text, LAMBDA b : Score(b.text) > 20 * ScoreScale)
  IN [i \in 1..Len(headings) |->
        HeadingSection(doc, page, headings[i], heading_score(headings[i]))]
     \o [i \in 1..Len(blocks) |->
           BodySection(doc, page, blocks[i], Score(blocks[i].text))]

\* the Sections of a readable file within budget
SectionsOfFile(name) ==
  LET raw == RawFile(name)
      pages == [i \in 1..Len(raw.pages) |-> PageContent(raw.pages[i], i - 1, det)]
      doc == [pages |-> pages, metadata |-> [filename |-> name]]
  IN Flatten([i \in 1..Len(pages) |-> SectionsOfPage(doc, pages[i])])

\* C5: a document whose extraction fails has no pages and gives no Section and
\* no Subsection; the run goes on, and a run that ends within budget without
\* another failure returns Success after handing to ranking the Sections of
\* every readable document, before and after the failing one, in order.
FailedDocumentIsSkipped ==
  /\ (pc \in {"headings", "body", "subsections"} /\ Unreadable(pdf_files[doc_i])) =>
       /\ content.pages = <<>>
       /\ sections = <<>>
       /\ pc = "subsections" => subsections = <<>>
  /\ (pc = "done" /\ IsSuccess(result) /\ ~Breached) =>
       all_sections =
         Flatten([i \in 1..Len(pdf_files) |->
                    IF Unreadable(pdf_files[i]) THEN <<>> ELSE SectionsOfFile(pdf_files[i])])
  /\ (pc = "done" /\ ExtractErrorMsg \in stderr /\ ProcessingErrorMsg \notin stderr) =>
       IsSuccess(result)

\* A run over a readable, an unreadable and a readable document has returned
\* Success with Sections of the first and of the third.
FailedDocumentWitness ==
  /\ pc = "done"
  /\ IsSuccess(result) /\ ~Breached
  /\ Len(pdf_files) = 3 /\ Unreadable(pdf_files[2])
  /\ ExtractErrorMsg \in stderr
  /\ \E i \in DOMAIN all_sections : all_sections[i].document = pdf_files[1]
  /\ \E i \in DOMAIN all_sections : all_sections[i].document = pdf_files[3]

\* 1 + the number of items that a stable sort by descending score puts before
\* item i: the items of higher score and the earlier items of equal score
RankPosition(items, i) ==
  1 + Cardinality({j \in 1..Len(items) :
                     \/ items[j].relevance_score > items[i].relevance_score
                     \/ items[j].relevance_score = items[i].relevance_score /\ j < i})

StablySorted(items) ==
  [p \in 1..Len(items) |->
     items[CHOOSE i \in 1..Len(items) : RankPosition(items, i) = p]]

FirstN(items, n) == SubSeq(items, 1, IF Len(items) < n THEN Len(items) ELSE n)

\* C6: the sections returned are the first 10 of the input sections stably
\* sorted by descending relevance_score and then restricted to a content
\* length from 50 to 2000; the subsections returned are the first 15 of the
\* input subsections so sorted and restricted to a refined_text length from
\* 30 to 1000.
RankIsSortFilterTruncate ==
  (call.fn = "rank" /\ call.stage # "input") =>
    /\ call.out[1] =
         FirstN(SelectSeq(StablySorted(call.sections),
                          LAMBDA s : 50 <= Len(s.content) /\ Len(s.content) <= 2000), 10)
    /\ call.out[2] =
         FirstN(SelectSeq(StablySorted(call.subsections),
                          LAMBDA u : 30 <= Len(u.refined_text) /\ Len(u.refined_text) <= 1000),
                15)

\* Twelve sections, one of them too short and of the highest score, were
\* ranked: the filter dropped one and the cap another.
RankIsSortFilterTruncateWitness ==
  /\ call.fn = "rank" /\ call.stage = "ranked"
  /\ Len(call.sections) = 12
  /\ \E i \in DOMAIN call.sections :
       /\ Len(call.sections[i].content) < 50
       /\ \A j \in DOMAIN call.sections :
            call.sections[j].relevance_score <= call.sections[i].relevance_score
  /\ Len(call.out[1]) = 10

\* every item of output is an item of input
DrawnFrom(input, output) ==
  \A a \in DOMAIN output : \E i \in DOMAIN input : input[i] = output[a]

InputIndex(input, item) == CHOOSE i \in DOMAIN input : input[i] = item

KeepsTieOrder(input, output) ==
  /\ DrawnFrom(input, output)
  /\ \A a, b \in DOMAIN output :
       (a < b /\ output[a].relevance_score = output[b].relevance_score)
         => InputIndex(input, output[a]) < InputIndex(input, output[b])

\* C7: two sections, or two subsections, of equal relevance_score that are both
\* returned come out in the order they had in the input list.
RankIsStable ==
  (call.fn = "rank" /\ call.stage # "input") =>
    /\ KeepsTieOrder(call.sections, call.out[1])
    /\ KeepsTieOrder(call.subsections, call.out[2])

\* Two returned sections of equal score were apart in the input, which the
\* sort did reorder.
RankIsStableWitness ==
  /\ call.fn = "rank" /\ call.stage = "ranked"
  /\ call.out[1] # FirstN(call.sections, Len(call.out[1]))
  /\ \E a, b \in DOMAIN call.out[1] :
       /\ a < b
       /\ call.out[1][a].relevance_score = call.out[1][b].relevance_score
       /\ call.out[1][a].page + 1 < call.out[1][b].page
  /\ \E a, b \in DOMAIN call.out[2] :
       /\ a < b
       /\ call.out[2][a].relevance_score = call.out[2][b].relevance_score

\* C8: rank_and_filter_results_advanced applied to its own output returns that
\* output, the same elements in the same order.
RankIsIdempotent ==
  (call.fn = "rank" /\ call.stage = "again") => call.again = call.out

\* The function was applied again to an output that the first call had sorted,
\* filtered and cut to 10 sections.
RankIsIdempotentWitness ==
  /\ call.fn = "rank" /\ call.stage = "again"
  /\ Len(call.sections) = 12
  /\ Len(call.out[1]) = 10
  /\ Len(call.out[2]) > 0
  /\ call.out[1] # FirstN(call.sections, 10)

\* C9: a Success result has at most 10 extracted_sections, the entry at
\* position i has importance_rank i, relevance_score does not increase with
\* the rank, and when 12 or more Sections were admitted and all of them pass
\* the length filter there are exactly 10 entries.
RanksAreDenseAndCapped ==
  (pc = "done" /\ IsSuccess(result)) =>
    LET entries == result.extracted_sections
    IN /\ Len(entries) <= 10
       /\ \A i \in DOMAIN entries : entries[i].importance_rank = i
       /\ \A i \in 1..(Len(entries) - 1) :
            entries[i].relevance_score >= entries[i + 1].relevance_score
       /\ (/\ Len(all_sections) >= 12
           /\ \A i \in DOMAIN all_sections :
                50 <= Len(all_sections[i].content) /\ Len(all_sections[i].content) <= 2000)
            => Len(entries) = 10

\* A run admitted 12 Sections from two documents, all within the length
\* filter and not all of one score, and has returned 10 entries.
RanksAreDenseAndCappedWitness ==
  /\ pc = "done" /\ IsSuccess(result)
  /\ Len(all_sections) = 12
  /\ \A i \in DOMAIN all_sections :
       50 <= Len(all_sections[i].content) /\ Len(all_sections[i].content) <= 2000
  /\ Len(result.extracted_sections) = 10
  /\ result.extracted_sections[1].relevance_score
       > result.extracted_sections[10].relevance_score

\* C10: the step that scores a heading with its associated content appends a
\* Section of that heading if and only if the score is above 15, and the step
\* that scores a body block appends a Section of that block if and only if
\* the score is above 20; at a score of exactly 15, or exactly 20, the list
\* of Sections is left as it was.
ThresholdsAreStrict ==
  [][/\ (pc = "headings" /\ pc' = "headings" /\ item_i' = item_i + 1) =>
          LET heading == CurrentPage.headings[item_i]
              associated ==
                _find_associated_content(heading, CurrentPage.body_text, content.pages,
                                         CurrentPage.page_number)
          IN IF Score(heading.text \o <<" ">> \o associated) > 15 * ScoreScale
             THEN /\ Len(sections') = Len(sections) + 1
                  /\ SubSeq(sections', 1, Len(sections)) = sections
                  /\ sections'[Len(sections')].section_title = heading.text
                  /\ sections'[Len(sections')].content = associated
             ELSE sections' = sections
     /\ (pc = "body" /\ pc' = "body" /\ item_i' = item_i + 1) =>
          LET text_block == CurrentPage.body_text[item_i]
          IN IF Score(text_block.text) > 20 * ScoreScale
             THEN /\ Len(sections') = Len(sections) + 1
                  /\ SubSeq(sections', 1, Len(sections)) = sections
                  /\ sections'[Len(sections')].content = text_block.text
             ELSE sections' = sections]_vars

\* On page 1 of the mixed document, without a sentence model, the heading
\* scored exactly 15 with its content and a body block scored exactly 20; both
\* have been scored and neither is among the Sections.
ThresholdsAreStrictWitness ==
  /\ pc = "body" /\ page_i = 1 /\ item_i > 3
  /\ CurrentPage.headings[1].text = TxtIntroTitle
  /\ Score(TxtIntroCombined) = 15 * ScoreScale
  /\ CurrentPage.body_text[3].text = TxtBoundary
  /\ Score(TxtBoundary) = 20 * ScoreScale
  /\ \A i \in DOMAIN sections :
       sections[i].section_title # TxtIntroTitle /\ sections[i].content # TxtBoundary

\* the text is absent, empty, or has fewer than 10 characters once trimmed
AbsentOrShort(text) ==
  \/ text = None
  \/ text = <<>>
  \/ Len(strip(text)) < 10

\* C11: for a text that is absent, empty or shorter than 10 characters once
\* trimmed, with any persona and job, the call returns exactly 0 and has
\* invoked neither the language detector nor the sentence model.
ShortTextScoresZero ==
  (call.fn = "score" /\ call.outcome # "called" /\ AbsentOrShort(call.text)) =>
    /\ call.outcome = "returned"
    /\ call.value = 0
    /\ call.invoked \cap {"detect_language", "encode"} = {}

\* A call on a text of 10 characters, 4 of them left by trimming, with a
\* sentence model set, has returned.
ShortTextScoresZeroWitness ==
  /\ call.fn = "score" /\ call.outcome = "returned"
  /\ call.text = TxtPadded
  /\ Len(call.text) >= 10
  /\ sentence_model.kind = "ok"
  /\ persona = "researcher"

\* the sentences of the content that score above 20
SentencesAbove20(text) ==
  LET sentences == sent_tokenize(text)
  IN {sentences[i] : i \in {j \in DOMAIN sentences : Score(sentences[j]) > 20 * ScoreScale}}

\* C12: for a non-empty content the value returned by
\* refine_content_for_persona is not empty: when no sentence scores above 20
\* it is the first 300 characters of the content as they are, and otherwise
\* it holds a sentence scoring above 20 and no more characters than the
\* sentences scoring above 20 joined by single spaces would.
RefineNeverEmpty ==
  (call.fn = "refine" /\ call.outcome = "returned" /\ Len(call.content) > 0) =>
    /\ Len(call.value) > 0
    /\ IF SentencesAbove20(call.content) = {}
       THEN call.value = SubSeq(call.content, 1, Min(300, Len(call.content)))
       ELSE /\ \E s \in SentencesAbove20(call.content) : Contains(s, call.value)
            /\ Len(call.value) <= Len(call.content)

\* A call on a content of more than 300 characters none of whose five
\* sentences scores above 20 has returned its first 300 characters.
RefineNeverEmptyWitness ==
  /\ call.fn = "refine" /\ call.outcome = "returned"
  /\ Len(call.content) > 300
  /\ Len(sent_tokenize(call.content)) = 5
  /\ SentencesAbove20(call.content) = {}
  /\ Len(call.value) = 300

\* keyword, structural and quality component of the score of a text, summed
ThreeComponents(text) ==
  LET language == detect_language(text, det)
      keywords == get_keywords_for_language(persona, job, language)
  IN KeywordScore(lower(text), keywords)
       + _calculate_structure_score(lower(text), language) * ScoreScale
       + _calculate_quality_score(text, language, persona) * ScoreScale

\* C13: with no sentence model, or with one whose encode raises, the call
\* returns, and its value is the sum of the keyword, structural and quality
\* components held between 0 and 100: the value with a raising model is the
\* value with no model.
NoProviderScoresThreeComponents ==
  (/\ call.fn = "score" /\ call.outcome = "returned"
   /\ sentence_model.kind \in {"none", "raise"}
   /\ ~AbsentOrShort(call.text)) =>
    /\ call.value = Min(100 * ScoreScale, Max(0, ThreeComponents(call.text)))
    /\ call.value =
         calculate_semantic_relevance_multilingual(call.text, persona, job, det, NoModel)

\* A call with a raising model has returned a score above 0 and the warning
\* was printed.
NoProviderWitness ==
  /\ call.fn = "score" /\ call.outcome = "returned"
  /\ sentence_model.kind = "raise"
  /\ call.text = TxtMethodology
  /\ call.value > 15 * ScoreScale
  /\ SimilarityWarning \in stderr

\* the content of the Section, trimmed, has 20 characters or more
LongEnough(section) == Len(strip(section.content)) >= 20

\* where a Subsection comes from
Origin(entry) ==
  [document |-> entry.document, page |-> entry.page,
   section_title |-> entry.section_title, relevance_score |-> entry.relevance_score]

\* the origins of the Sections of a list that are long enough, in order
LongOrigins(list) ==
  LET kept == SelectSeq(list, LongEnough)
  IN [i \in 1..Len(kept) |-> Origin(kept[i])]

Origins(list) == [i \in 1..Len(list) |-> Origin(list[i])]

IsPrefix(s, t) == Len(s) <= Len(t) /\ s = SubSeq(t, 1, Len(s))

\* C14: the Subsections made from the admitted Sections of a document are, in
\* order, one for each Section reached within the budget whose trimmed content
\* has 20 characters or more, and none for a shorter one; no Subsection is
\* added once the budget is breached; every admitted Section, short ones
\* included, is in the list handed to ranking.
SubsectionIffLongEnough ==
  /\ [](pc = "subsections" =>
          /\ Origins(subsections) = LongOrigins(SubSeq(sections, 1, sec_i - 1))
          /\ \A i \in 1..Len(subsections) : Len(subsections[i].refined_text) > 0
          /\ Len(sections) <= Len(all_sections)
          /\ sections = SubSeq(all_sections, Len(all_sections) - Len(sections) + 1,
                               Len(all_sections)))
  /\ [](pc = "rank" =>
          /\ IsPrefix(Origins(all_subsections), LongOrigins(all_sections))
          /\ (now - start_time <= TimeLimit =>
                Origins(all_subsections) = LongOrigins(all_sections)))
  /\ [][(pc = "subsections" /\ now - start_time > TimeLimit) =>
          (subsections' = subsections /\ all_sections' = all_sections)]_vars

\* Ranking is reached with an admitted Section of short content in the section
\* list, and with a Subsection for each long one.
SubsectionIffLongEnoughWitness ==
  /\ pc = "rank"
  /\ \E i \in 1..Len(all_sections) : ~LongEnough(all_sections[i])
  /\ Len(all_subsections) > 0
  /\ Origins(all_subsections) = LongOrigins(all_sections)

\* the line of text a Section was made from: its content for a body Section,
\* its title for a heading Section
SourceLine(section) ==
  IF section.section_title = ContentFromPage(section.page)
  THEN section.content ELSE section.section_title

\* no detection strategy ran on the line: the detector answered by default
Undetermined(line) == Len(strip(line)) < 10

\* the tags an entry can carry
LanguageTags == {LanguageOrder[i] : i \in DOMAIN LanguageOrder} \cup {"en", "es"}

\* C15: every entry of extracted_sections and of subsection_analysis has one
\* language tag; the tag of a Section entry is the one detected for the line
\* the Section was made from, and "en" where the line was too short for a
\* detection; no language is determined for a Subsection, so its tag is "en".
EveryEntryHasOneLanguage ==
  (pc = "done" /\ IsSuccess(result)) =>
    /\ \A i \in 1..Len(result.extracted_sections) :
         LET e == result.extracted_sections[i]
         IN /\ "language" \in DOMAIN e
            /\ e.language \in LanguageTags
            /\ \E j \in 1..Len(all_sections) :
                 LET s == all_sections[j]
                 IN /\ Origin(s) = Origin(e)
                    /\ e.language = detect_language(strip(SourceLine(s)), det)
                    /\ (Undetermined(SourceLine(s)) => e.language = "en")
    /\ \A i \in 1..Len(result.subsection_analysis) :
         LET e == result.subsection_analysis[i]
         IN "language" \in DOMAIN e /\ e.language = "en"

\* A result holds a Section entry tagged "en" for a title too short for a
\* detection, a Section entry with a detected tag other than "en", and a
\* Subsection entry.
EveryEntryHasOneLanguageWitness ==
  /\ pc = "done" /\ IsSuccess(result)
  /\ \E i \in 1..Len(result.extracted_sections) :
       /\ Undetermined(result.extracted_sections[i].section_title)
       /\ result.extracted_sections[i].language = "en"
  /\ \E i \in 1..Len(result.extracted_sections) :
       result.extracted_sections[i].language # "en"
  /\ Len(result.subsection_analysis) > 0

\* the number of characters of the text that are not whitespace
NonWhitespaceCount(text) == Cardinality({i \in 1..Len(text) : ~IsSpace(text[i])})

\* the length of the text without its leading and trailing whitespace
TrimmedLength(text) == Len(strip(text))

\* C16 as stated: for every text with fewer than 10 characters that are not
\* whitespace, detect_language returns "en" and calls no strategy.
FewNonWhitespaceGivesEn ==
  (call.fn = "detect" /\ call.outcome = "returned"
     /\ NonWhitespaceCount(call.text) < 10) =>
    (call.value = "en" /\ call.invoked = <<>>)

\* C16: for every text whose trimmed length is under 10 (inner whitespace
\* counted), detect_language returns "en" and calls no strategy; for every
\* text whose trimmed length is 10 or more, it calls a strategy, also where
\* fewer than 10 of its characters are not whitespace.
ShortTrimmedGivesEn ==
  (call.fn = "detect" /\ call.outcome = "returned") =>
    IF TrimmedLength(call.text) < 10
    THEN call.value = "en" /\ call.invoked = <<>>
    ELSE call.invoked # <<>>

\* A call has returned "en" with no strategy called for a text of trimmed
\* length 9, with langdetect installed and answering "es" for any text.
ShortTrimmedGivesEnWitness ==
  /\ call.fn = "detect" /\ call.outcome = "returned"
  /\ det.langdetect = "es"
  /\ call.text = TxtNineTrimmed
  /\ TrimmedLength(call.text) = 9
  /\ call.value = "en" /\ call.invoked = <<>>

\* the three strategies in the order the claim gives them
Strategies == <<"langdetect", "langid", "pattern">>

\* what the i-th strategy does with the text of the call: a tag, "raise" or
\* "unavailable"
StrategyOutcome(i) ==
  IF i = 1 THEN det.langdetect
  ELSE IF i = 2 THEN det.langid
  ELSE _pattern_based_detection(call.text)

Succeeds(i) == StrategyOutcome(i) \notin {"raise", "unavailable"}

\* the first strategy that is available and does not raise
FirstSuccess == CHOOSE i \in 1..3 : Succeeds(i) /\ \A j \in 1..(i - 1) : ~Succeeds(j)

\* C17: a call of detect_language with a text above the short-text floor (a
\* trimmed length of 10 characters or more)
\* returns a tag, never an exception: the tag is the answer of the first of
\* langdetect, langid and the pattern matcher that is available and does not
\* raise; the strategies called are, in that order, the available ones up to
\* that one, and none after it.
DetectTriesInOrder ==
  (call.fn = "detect" /\ call.outcome = "returned" /\ TrimmedLength(call.text) >= 10) =>
    /\ call.value \notin {"raise", "unavailable"}
    /\ \E i \in 1..3 : Succeeds(i)
    /\ call.value = StrategyOutcome(FirstSuccess)
    /\ call.invoked =
         SelectSeq(SubSeq(Strategies, 1, FirstSuccess),
                   LAMBDA s : \/ s = "langdetect" /\ det.langdetect # "unavailable"
                              \/ s = "langid" /\ det.langid # "unavailable"
                              \/ s = "pattern")

\* A call has returned the answer of langid after langdetect raised, the
\* two answers differing, and the pattern matcher was not called.
DetectTriesInOrderWitness ==
  /\ call.fn = "detect" /\ call.outcome = "returned"
  /\ call.text = TxtMethodology
  /\ det.langdetect = "raise" /\ det.langid = "es"
  /\ call.value = "es"
  /\ call.invoked = <<"langdetect", "langid">>

\* the scenario: the Methodology sentence scored for a researcher doing a
\* literature review, the text detected as English, and the call has returned
MethodologyScenario ==
  /\ call.fn = "score" /\ call.outcome = "returned"
  /\ call.text = TxtMethodology
  /\ persona = "researcher" /\ job = "literature_review"
  /\ detect_language(call.text, det) = "en"

\* keyword component above 0, structural component 5 or more, value above
\* the heading threshold of 15
MethodologyScoresAsStated ==
  /\ KeywordScore(lower(call.text),
                  get_keywords_for_language(persona, job, "en")) > 0
  /\ _calculate_structure_score(lower(call.text), "en") >= 5
  /\ call.value > 15 * ScoreScale

\* C18 as stated: in the scenario the keyword component is above 0, the
\* structural component is 5 or more and the score is above 15, whatever the
\* sentence model.
MethodologyAboveHeadingThreshold == MethodologyScenario => MethodologyScoresAsStated

\* C18: in the scenario the keyword component is above 0 and the structural
\* component is 5 or more; the score is above 15 with no sentence model, with
\* one whose encode raises, and with one whose cosine similarity is not
\* negative.
MethodologyAboveThresholdUnlessNegative ==
  (MethodologyScenario
     /\ (sentence_model.kind \in {"none", "raise"} \/ sentence_model.similarity >= 0)) =>
    MethodologyScoresAsStated

\* The scenario with no sentence model: the call has returned a score
\* between 15 and 20.
MethodologyWitness ==
  /\ MethodologyScenario
  /\ sentence_model = NoModel
  /\ det.langdetect = "en"
  /\ call.value > 15 * ScoreScale /\ call.value < 20 * ScoreScale

\* this step extracts a page of the current document
ExtractsAPage == pc = "extract" /\ pc' = "extract" /\ page_i' = page_i + 1

\* C19: no page of a document is extracted once the 300 seconds are
\* exceeded: the extraction stops before the next page.
NoPageExtractedAfterBreach ==
  [][(now - start_time > TimeLimit) => ~ExtractsAPage]_vars

\* the map of one table entry for a language: the entry's map for the
\* language, its English map where it has none for the language, and the
\* empty map where the table has no such entry
MapFor(table, name, language) ==
  IF name \notin DOMAIN table THEN EmptyDict
  ELSE IF language \in DOMAIN table[name].keywords THEN table[name].keywords[language]
  ELSE IF "en" \in DOMAIN table[name].keywords THEN table[name].keywords["en"]
  ELSE EmptyDict

PersonaMap == MapFor(PERSONA_KNOWLEDGE, persona, call.language)

JobMap == MapFor(JOB_PATTERNS, job, call.language)

\* C20: the table returned by get_keywords_for_language has the keys of the
\* persona's map and of the job's map for the language, each of the two
\* falling back to its own English map; a key of the job's map has the job's
\* weight, any other key the persona's weight; an unknown persona or job
\* adds no key.
KeywordsAreUnionJobWins ==
  (call.fn = "keywords" /\ call.outcome = "returned") =>
    /\ DOMAIN call.value = DOMAIN PersonaMap \cup DOMAIN JobMap
    /\ \A k \in DOMAIN JobMap : call.value[k] = JobMap[k]
    /\ \A k \in DOMAIN PersonaMap \ DOMAIN JobMap : call.value[k] = PersonaMap[k]
    /\ (persona \notin DOMAIN PERSONA_KNOWLEDGE => DOMAIN call.value = DOMAIN JobMap)
    /\ (job \notin DOMAIN JOB_PATTERNS => DOMAIN call.value = DOMAIN PersonaMap)
    /\ ((persona \notin DOMAIN PERSONA_KNOWLEDGE /\ job \notin DOMAIN JOB_PATTERNS) =>
          DOMAIN call.value = {})

\* A call for French, for which neither table has a map, has returned the
\* English keywords of the researcher with those of the literature review,
\* and on a key of both maps the job's weight, which is not the persona's.
KeywordsAreUnionJobWinsWitness ==
  /\ call.fn = "keywords" /\ call.outcome = "returned"
  /\ persona = "researcher" /\ job = "literature_review"
  /\ call.language = "fr"
  /\ DOMAIN call.value = DOMAIN PERSONA_KNOWLEDGE.researcher.keywords.en
                           \cup DOMAIN JOB_PATTERNS.literature_review.keywords.en
  /\ \E k \in DOMAIN PersonaMap \cap DOMAIN JobMap :
       PersonaMap[k] # JobMap[k] /\ call.value[k] = JobMap[k]

\* the merged table of the call under way, for the language detected
MergedTable ==
  get_keywords_for_language(persona, job, detect_language(call.text, det))

\* the sum of the weights of the keys of the merged table found in the
\* lowercased text
MatchedWeight ==
  SumOver(MergedTable, {k \in DOMAIN MergedTable : Contains(k, lower(call.text))})

\* the sum of all weights of the merged table, or 1 for the empty table
Divisor ==
  IF DOMAIN MergedTable = {} THEN 1 ELSE SumOver(MergedTable, DOMAIN MergedTable)

\* C21: the keyword component of a scored text is 40 * matched weight /
\* divisor, to the unit of the fixed point; the divisor is above 0; the
\* component is at least 0 and at most 40, and 0 for the empty table.
KeywordComponentIsNormalised ==
  (call.fn = "score" /\ call.outcome = "returned" /\ ~AbsentOrShort(call.text)) =>
    LET component == KeywordScore(lower(call.text), MergedTable)
    IN /\ Divisor > 0
       /\ component * Divisor <= 40 * ScoreScale * MatchedWeight
       /\ 40 * ScoreScale * MatchedWeight < (component + 1) * Divisor
       /\ 0 <= component /\ component <= 40 * ScoreScale
       /\ (DOMAIN MergedTable = {} => component = 0)

\* A text has been scored for a persona and a job that are in no table: the
\* merged table is empty, the component is 0 and the call has returned the
\* other components.
KeywordComponentWitness ==
  /\ call.fn = "score" /\ call.outcome = "returned"
  /\ call.text = TxtMethodology
  /\ persona = "chef" /\ job = "gardening"
  /\ DOMAIN MergedTable = {}
  /\ KeywordScore(lower(call.text), MergedTable) = 0
  /\ call.value > 0

\* the scores of the sentences of a content, in the order of the text
SentenceScores(text) ==
  LET sentences == sent_tokenize(text)
  IN [i \in DOMAIN sentences |-> Score(sentences[i])]

\* how many sentences come before the i-th when they are put in descending
\* order of score, sentences of equal score staying in the order of the text
SentencesBefore(scores, i) ==
  Cardinality({j \in DOMAIN scores :
                 scores[j] > scores[i] \/ (scores[j] = scores[i] /\ j < i)})

\* 4 for a researcher or an analyst, 3 for anyone else
TopCount == IF persona \in {"researcher", "analyst"} THEN 4 ELSE 3

\* the sentences among the first TopCount that score strictly above 20
Survivors(scores) ==
  {i \in DOMAIN scores :
     SentencesBefore(scores, i) < TopCount /\ scores[i] > 20 * ScoreScale}

\* the survivors in descending order of score
SurvivorsInOrder(sentences, scores) ==
  LET kept == Survivors(scores)
  IN [k \in 1..Cardinality(kept) |->
        sentences[CHOOSE i \in kept :
                    Cardinality({j \in kept : SentencesBefore(scores, j)
                                                < SentencesBefore(scores, i)}) = k - 1]]

\* the strs joined by single spaces
RECURSIVE SpaceJoined(_)
SpaceJoined(strs) ==
  IF Len(strs) = 0 THEN <<>>
  ELSE IF Len(strs) = 1 THEN strs[1]
  ELSE strs[1] \o <<" ">> \o SpaceJoined(Tail(strs))

\* C22: where a sentence of the content survives, the value returned is the
\* survivors joined by single spaces in descending order of score: the
\* sentences among the first 4 (researcher, analyst) or 3 (anyone else) by
\* score that score strictly above 20, so never one that scores 20; where
\* none survives the value is the first 300 characters of the content.
RefineKeepsTopAbove20 ==
  (call.fn = "refine" /\ call.outcome = "returned") =>
    LET sentences == sent_tokenize(call.content)
        scores == SentenceScores(call.content)
    IN IF Survivors(scores) # {}
       THEN call.value = SpaceJoined(SurvivorsInOrder(sentences, scores))
       ELSE call.value = SubSeq(call.content, 1, Min(300, Len(call.content)))

\* A call for a researcher on a content of five sentences that all score
\* above 20 has returned four of them.
RefineKeepsTopAbove20Witness ==
  /\ call.fn = "refine" /\ call.outcome = "returned"
  /\ persona = "researcher"
  /\ LET scores == SentenceScores(call.content)
     IN /\ Len(scores) = 5
        /\ \A i \in DOMAIN scores : scores[i] > 20 * ScoreScale
        /\ Cardinality(Survivors(scores)) = 4
        /\ call.value = SpaceJoined(SurvivorsInOrder(sent_tokenize(call.content), scores))

\* C23: a block whose text has fewer than 3 or more than 200 characters is
\* body text, whatever its font, its pattern and its keywords; any other
\* block is a heading exactly when its font size is over 12 and it is bold,
\* or its text matches one of the five patterns, or its lowercased text
\* holds one of the ten keywords.
HeadingRulesInOrder ==
  (call.fn = "heading" /\ call.outcome = "returned") =>
    LET text == call.block.text
    IN IF Len(text) < 3 \/ Len(text) > 200
       THEN call.value = FALSE
       ELSE call.value =
              (\/ call.block.font_size > 1200 /\ call.block.is_bold
               \/ NumberedHeading(text)
               \/ SubNumberedHeading(text)
               \/ AllCapsHeading(text)
               \/ WordNumberHeading(text, <<"C","h","a","p","t","e","r">>)
               \/ WordNumberHeading(text, <<"S","e","c","t","i","o","n">>)
               \/ \E keyword \in HEADING_KEYWORDS : Contains(keyword, lower(text)))

\* A bold block of 201 characters in a font over 12 pt whose text holds a
\* heading keyword has been classified as body text.
HeadingRulesInOrderWitness ==
  /\ call.fn = "heading" /\ call.outcome = "returned"
  /\ Len(call.block.text) = 201
  /\ call.block.font_size > 1200 /\ call.block.is_bold
  /\ \E keyword \in HEADING_KEYWORDS : Contains(keyword, lower(call.block.text))
  /\ call.value = FALSE

\* the texts of the blocks, in order
TextsOf(blocks) == [i \in 1..Len(blocks) |-> blocks[i].text]

\* the body blocks of page p whose top is strictly below the top of the
\* heading (a greater y)
BlocksBelow(pages, p, heading) ==
  SelectSeq(pages[p].body_text, LAMBDA b : b.bbox[2] > heading.bbox[2])

\* what the claim gives as the content of a heading of page p
ContentByClaim(pages, p, heading) ==
  IF BlocksBelow(pages, p, heading) # <<>>
  THEN SpaceJoined(FirstN(TextsOf(BlocksBelow(pages, p, heading)), 3))
  ELSE IF p < Len(pages)
  THEN SpaceJoined(FirstN(TextsOf(pages[p + 1].body_text), 3))
  ELSE <<>>

\* a Section made from a heading
HeadingDerived(section) == section.section_title # ContentFromPage(section.page)

\* C24: for every heading of every page of the extracted document, the
\* associated content is the join by single spaces of the first three body
\* blocks of the page that lie strictly below it, or with none below of
\* the first three body blocks of the next page, or with none below on
\* the last page the empty string (no page after the last is read); the
\* content of every Section made from a heading is that content.
AssociatedContentIsFirstThreeBelow ==
  (pc \in {"headings", "body"}) =>
    /\ \A p \in 1..Len(content.pages) :
         \A k \in 1..Len(content.pages[p].headings) :
           LET page == content.pages[p]
           IN /\ page.page_number = p
              /\ _find_associated_content(page.headings[k], page.body_text,
                                          content.pages, page.page_number)
                   = ContentByClaim(content.pages, p, page.headings[k])
    /\ \A i \in 1..Len(sections) :
         HeadingDerived(sections[i]) =>
           \E k \in 1..Len(content.pages[sections[i].page].headings) :
             LET heading == content.pages[sections[i].page].headings[k]
             IN /\ heading.text = sections[i].section_title
                /\ sections[i].content =
                     ContentByClaim(content.pages, sections[i].page, heading)

\* The mixed document: the Section of the heading at the foot of its first
\* page has been admitted with the first body block of the second page as
\* content, and the heading at the foot of its last page has the empty
\* content.
AssociatedContentWitness ==
  /\ pc = "body" /\ page_i = Len(content.pages)
  /\ Len(content.pages) = 2
  /\ \E k \in 1..Len(content.pages[1].headings) :
       /\ BlocksBelow(content.pages, 1, content.pages[1].headings[k]) = <<>>
       /\ ContentByClaim(content.pages, 1, content.pages[1].headings[k]) = TxtCitation
       /\ \E i \in 1..Len(sections) :
            /\ sections[i].section_title = content.pages[1].headings[k].text
            /\ sections[i].content = TxtCitation
  /\ \E k \in 1..Len(content.pages[2].headings) :
       ContentByClaim(content.pages, 2, content.pages[2].headings[k]) = <<>>

\* the score the Section was admitted on, before rounding
AdmissionScore(section) ==
  IF HeadingDerived(section)
  THEN Score(section.section_title \o <<" ">> \o section.content)
  ELSE Score(section.content)

\* 15 for a Section made from a heading, 20 for one made from a body block
ThresholdOf(section) ==
  IF HeadingDerived(section) THEN 15 * ScoreScale ELSE 20 * ScoreScale

\* C25 as stated: the relevance_score stored in every Section is strictly
\* above the threshold of the Section, and no entry of extracted_sections
\* titled "Content from page N" shows 20.0 or less.
StoredScoreAboveThreshold ==
  /\ \A i \in 1..Len(SectionsSoFar) :
       SectionsSoFar[i].relevance_score > ThresholdOf(SectionsSoFar[i])
  /\ (pc = "done" /\ IsSuccess(result)) =>
       \A i \in 1..Len(result.extracted_sections) :
         LET e == result.extracted_sections[i]
         IN e.section_title = ContentFromPage(e.page) =>
              e.relevance_score > 20 * ScoreScale

\* C25: every Section is admitted on a score strictly above its threshold;
\* the relevance_score it stores is that score rounded to the nearest
\* hundredth, which is at least the threshold and can be the threshold
\* itself; no entry of extracted_sections titled "Content from page N"
\* shows less than 20.0.
StoredScoreAtLeastThreshold ==
  /\ [][(pc \in {"headings", "body"} /\ Len(sections') = Len(sections) + 1) =>
          LET s == sections'[Len(sections')]
              admitted_on == AdmissionScore(s)
          IN /\ admitted_on > ThresholdOf(s)
             /\ s.relevance_score % (ScoreScale \div 100) = 0
             /\ 2 * (s.relevance_score - admitted_on) <= ScoreScale \div 100
             /\ 2 * (admitted_on - s.relevance_score) <= ScoreScale \div 100
             /\ s.relevance_score >= ThresholdOf(s)]_vars
  /\ [](\A i \in 1..Len(SectionsSoFar) :
          SectionsSoFar[i].relevance_score >= ThresholdOf(SectionsSoFar[i]))
  /\ []((pc = "done" /\ IsSuccess(result)) =>
          \A i \in 1..Len(result.extracted_sections) :
            LET e == result.extracted_sections[i]
            IN e.section_title = ContentFromPage(e.page) =>
                 e.relevance_score >= 20 * ScoreScale)

\* A result shows 20.0 for an entry titled "Content from page 1": the body
\* block scored 20.003 with a cosine similarity of 0.0001.
StoredScoreAtThresholdWitness ==
  /\ pc = "done" /\ IsSuccess(result)
  /\ sentence_model = ModelReturning(1)
  /\ Score(TxtBoundary) = 20 * ScoreScale + 30
  /\ \E i \in 1..Len(result.extracted_sections) :
       /\ result.extracted_sections[i].section_title = ContentFromPage(1)
       /\ result.extracted_sections[i].relevance_score = 20 * ScoreScale

\* C26: in a result, the language tag of every subsection_analysis entry is
\* the language tag of the Section the Subsection was made from.
SubsectionKeepsSectionLanguage ==
  (pc = "done" /\ IsSuccess(result)) =>
    \A i \in 1..Len(result.subsection_analysis) :
      \A j \in 1..Len(all_sections) :
        Origin(all_sections[j]) = Origin(result.subsection_analysis[i]) =>
          result.subsection_analysis[i].language = all_sections[j].language

\* document, page and section_title of an entry
Place(entry) ==
  [document |-> entry.document, page |-> entry.page, section_title |-> entry.section_title]

\* C27 as stated: in a Success result every subsection_analysis entry has an
\* entry of extracted_sections with its document, page and section_title,
\* and with its relevance_score.
SubsectionHasExtractedSection ==
  (pc = "done" /\ IsSuccess(result)) =>
    \A i \in 1..Len(result.subsection_analysis) :
      \E j \in 1..Len(result.extracted_sections) :
        /\ Place(result.extracted_sections[j]) = Place(result.subsection_analysis[i])
        /\ result.extracted_sections[j].relevance_score
             = result.subsection_analysis[i].relevance_score

\* C27, amended: in a Success result every subsection_analysis entry comes
\* from a Section admitted during extraction, long enough for refinement,
\* with its document, page, section_title and relevance_score; that Section
\* may be absent from extracted_sections, whose length filter and cap are
\* applied apart from those of the subsections.
SubsectionHasAdmittedSection ==
  (pc = "done" /\ IsSuccess(result)) =>
    \A i \in 1..Len(result.subsection_analysis) :
      \E j \in 1..Len(all_sections) :
        /\ LongEnough(all_sections[j])
        /\ Origin(all_sections[j]) = Origin(result.subsection_analysis[i])

\* a Success result with a subsection_analysis entry whose Section is not in
\* extracted_sections: no entry there has its place and its score
SubsectionHasAdmittedSectionWitness ==
  /\ pc = "done"
  /\ IsSuccess(result)
  /\ \E i \in 1..Len(result.subsection_analysis) :
       /\ \A j \in 1..Len(result.extracted_sections) :
            \/ Place(result.extracted_sections[j]) # Place(result.subsection_analysis[i])
            \/ result.extracted_sections[j].relevance_score
                 # result.subsection_analysis[i].relevance_score
       /\ \E j \in 1..Len(all_sections) :
            Origin(all_sections[j]) = Origin(result.subsection_analysis[i])

\* C28: whatever result has been returned, with or without an error entry,
\* total_sections_found is the number of entries of extracted_sections and
\* total_subsections_found the number of entries of subsection_analysis.
TotalsAreListLengths ==
  result # <<>> =>
    /\ result.metadata.total_sections_found = Len(result.extracted_sections)
    /\ result.metadata.total_subsections_found = Len(result.subsection_analysis)

\* a Success result whose two lists are non-empty and of different lengths
TotalsAreListLengthsWitness ==
  /\ pc = "done"
  /\ IsSuccess(result)
  /\ Len(result.subsection_analysis) > 0
  /\ Len(result.extracted_sections) > Len(result.subsection_analysis)

\* C29: a score returned with no sentence model is at most 70: the keyword
\* component is at most 40, the structural component is 0, 5, 10, 15 or 20,
\* the quality component is at most 10, and the score is their sum.
NoProviderScoreAtMost70 ==
  (/\ call.fn = "score" /\ call.outcome = "returned"
   /\ sentence_model.kind = "none") =>
    /\ call.value <= 70 * ScoreScale
    /\ ~AbsentOrShort(call.text) =>
         LET language == detect_language(call.text, det)
             keyword == KeywordScore(lower(call.text),
                                     get_keywords_for_language(persona, job, language))
             structure == _calculate_structure_score(lower(call.text), language)
             quality == _calculate_quality_score(call.text, language, persona)
         IN /\ keyword <= 40 * ScoreScale
            /\ structure \in {0, 5, 10, 15, 20}
            /\ 0 <= quality /\ quality <= 10
            /\ call.value = keyword + (structure + quality) * ScoreScale

\* A text has been scored with no sentence model; its quality component is
\* the full 10, its structural component is above 0 and its keyword
\* component is above 0.
NoProviderScoreAtMost70Witness ==
  /\ call.fn = "score" /\ call.outcome = "returned"
  /\ sentence_model.kind = "none"
  /\ ~AbsentOrShort(call.text)
  /\ LET language == detect_language(call.text, det)
     IN /\ _calculate_quality_score(call.text, language, persona) = 10
        /\ _calculate_structure_score(lower(call.text), language) > 0
        /\ KeywordScore(lower(call.text),
                        get_keywords_for_language(persona, job, language)) > 0

\* the elements of a list
Elements(list) == {list[i] : i \in 1..Len(list)}

\* the two lists share no block, hold every block of text_blocks between
\* them, and each is in the order of text_blocks
IsPartitioned(page_content) ==
  LET headings == Elements(page_content.headings)
      body_text == Elements(page_content.body_text)
  IN /\ headings \cap body_text = {}
     /\ headings \cup body_text = Elements(page_content.text_blocks)
     /\ Len(page_content.headings) + Len(page_content.body_text)
          = Len(page_content.text_blocks)
     /\ page_content.headings
          = SelectSeq(page_content.text_blocks, LAMBDA b : b \in headings)
     /\ page_content.body_text
          = SelectSeq(page_content.text_blocks, LAMBDA b : b \in body_text)

\* C30: on every page of an extracted document the headings list and the
\* body_text list partition text_blocks, each in extraction order, the
\* headings being the blocks _is_heading_advanced accepts; a step that
\* appends a Section titled "Content from page N" scores a block of
\* body_text that is in no headings list of its page.
HeadingsAndBodyPartitionBlocks ==
  /\ [](\A p \in 1..Len(content.pages) :
          /\ IsPartitioned(content.pages[p])
          /\ \A i \in 1..Len(content.pages[p].text_blocks) :
               LET b == content.pages[p].text_blocks[i]
               IN _is_heading_advanced(b) <=> b \in Elements(content.pages[p].headings))
  /\ [][(/\ Len(sections') = Len(sections) + 1
         /\ sections'[Len(sections')].section_title = ContentFromPage(CurrentPage.page_number)) =>
          /\ pc = "body"
          /\ item_i <= Len(CurrentPage.body_text)
          /\ LET b == CurrentPage.body_text[item_i]
             IN /\ sections'[Len(sections')].content = b.text
                /\ b \in Elements(CurrentPage.text_blocks)
                /\ b \notin Elements(CurrentPage.headings)
                /\ ~_is_heading_advanced(b)]_vars

\* A page with headings and body blocks has been extracted; one of its body
\* blocks was admitted as a Section of its own, and a heading of the page
\* was admitted under its own title.
HeadingsAndBodyPartitionWitness ==
  /\ pc = "body"
  /\ page_i <= Len(content.pages)
  /\ Len(CurrentPage.headings) > 0
  /\ Len(CurrentPage.body_text) > 0
  /\ \E i \in 1..Len(sections) :
       sections[i].section_title = ContentFromPage(CurrentPage.page_number)
  /\ \E i \in 1..Len(sections) : \E h \in 1..Len(CurrentPage.headings) :
       sections[i].section_title = CurrentPage.headings[h].text

====
